---- MODULE Spec2Model ----
(***************************************************************************)
(* Blueprint: the Architectural Knowledge Graph (backend/app/core/akg.py)  *)
(* and the diff engine that compares two graphs                            *)
(* (backend/app/core/diff_engine.py).                                      *)
(*                                                                         *)
(* Strings whose characters the code inspects (node ids, node names, file  *)
(* paths: lower(), substring tests, the "|"-joined edge key) are tuples of *)
(* one-character strings.  Strings the code only compares or copies (node  *)
(* types, relations, layer and context names, components, entities) are    *)
(* TLA+ strings.  Python's None is the one-element tuple None.             *)
(***************************************************************************)
EXTENDS Integers, Sequences, FiniteSets, TLC

VARIABLES akg, diff, pc, builder, navigator, disk, task, _diff_results, analysis_store

vars == <<akg, diff, pc, builder, navigator, disk, task, _diff_results,
         analysis_store>>

\* the state of the web service: what the graph operations never touch
web == <<navigator, disk, task, _diff_results, analysis_store>>

\* the state of the graph operations: what the web service's steps are not
\* modelled to touch
graph_state == <<akg, diff, pc, builder>>

(***************************************************************************)
(* Bounds of the model.                                                    *)
(***************************************************************************)
\* add_node/add_edge calls made on the two graphs before the comparison (Spec)
MaxOps == 5
\* the same, for the risk-level inputs (RiskSpec)
MaxRiskOps == 6
\* add_layer/add_bounded_context calls before the comparison (LayerSpec)
MaxLayerOps == 3
\* components and key entities the two graphs hold in total (LayerSpec)
MaxComponents == 11

\* add_node/add_edge calls made on one graph (GraphSpec)
MaxGraphOps == 5
\* files a builder parses before it builds (BuildSpec)
MaxFiles == 2
\* files the builder parses before it builds (DetectSpec, ContextSpec)
MaxDetectFiles == 3
\* names tempfile.mkdtemp chooses from (NavSpec, RequestSpec)
MaxTempDirs == 4
\* checkout_to_temp calls made on the navigators (NavSpec)
MaxCheckouts == 2
\* close() calls made on one navigator (NavSpec)
MaxCloses == 2
\* add_node calls before the diagram is rendered (MermaidSpec)
MaxMermaidOps == 4
\* hash(id) % 10000 is drawn from 0..MaxHash (MermaidSpec)
MaxHash == 2

(***************************************************************************)
(* Python values.                                                          *)
(***************************************************************************)
None == <<"None">>

Min(a, b) == IF a <= b THEN a ELSE b

Abs(n) == IF n < 0 THEN 0 - n ELSE n

Range(s) == {s[i] : i \in DOMAIN s}

\* the cased characters
Lowers == <<"a", "b", "c", "d", "e", "f", "g", "h", "i", "j", "k", "l", "m", "n", "o", "p", "q", "r", "s", "t", "u", "v", "w", "x", "y", "z">>

Uppers == <<"A", "B", "C", "D", "E", "F", "G", "H", "I", "J", "K", "L", "M", "N", "O", "P", "Q", "R", "S", "T", "U", "V", "W", "X", "Y", "Z">>

\* the lower-case form of each upper-case character, and the converse
LowerOf ==
  [c \in Range(Uppers) |-> Lowers[CHOOSE i \in DOMAIN Uppers : Uppers[i] = c]]

UpperOf ==
  [c \in Range(Lowers) |-> Uppers[CHOOSE i \in DOMAIN Lowers : Lowers[i] = c]]

IsLowerChar(c) == c \in DOMAIN UpperOf

IsUpperChar(c) == c \in DOMAIN LowerOf

\* str.lower() and str.upper() on one character
LowerChar(c) == IF IsUpperChar(c) THEN LowerOf[c] ELSE c

UpperChar(c) == IF IsLowerChar(c) THEN UpperOf[c] ELSE c

\* str.lower()
Lower(s) == [i \in DOMAIN s |-> LowerChar(s[i])]

\* Python's `p in s` on strings: p is a contiguous substring of s
Contains(s, p) ==
  \E i \in 0..(Len(s) - Len(p)) : \A j \in 1..Len(p) : s[i + j] = p[j]

\* str.title(): a cased character is upper-cased after an uncased one (or at
\* the start) and lower-cased after a cased one
Title(s) ==
  [i \in DOMAIN s |->
     IF i > 1 /\ (IsLowerChar(s[i - 1]) \/ IsUpperChar(s[i - 1]))
     THEN LowerChar(s[i]) ELSE UpperChar(s[i])]

\* str.startswith, str.endswith
StartsWith(s, p) ==
  Len(p) <= Len(s) /\ \A j \in 1..Len(p) : s[j] = p[j]

EndsWith(s, p) ==
  Len(p) <= Len(s) /\ \A j \in 1..Len(p) : s[Len(s) - Len(p) + j] = p[j]

\* str.replace(old, new) for a one-character old
RECURSIVE ReplaceChar(_, _, _)
ReplaceChar(s, old, new) ==
  IF s = <<>> THEN <<>>
  ELSE (IF Head(s) = old THEN new ELSE <<Head(s)>>)
         \o ReplaceChar(Tail(s), old, new)

\* str.lstrip(c) for one character c
RECURSIVE LStrip(_, _)
LStrip(s, c) ==
  IF s # <<>> /\ Head(s) = c THEN LStrip(Tail(s), c) ELSE s

\* the non-empty pieces of s between the separators c
RECURSIVE Pieces(_, _)
Pieces(s, c) ==
  IF s = <<>> THEN <<>>
  ELSE IF Head(s) = c THEN Pieces(Tail(s), c)
  ELSE LET stop == IF \E i \in DOMAIN s : s[i] = c
                   THEN CHOOSE i \in DOMAIN s :
                          s[i] = c /\ \A j \in 1..(i - 1) : s[j] # c
                   ELSE Len(s) + 1
       IN <<SubSeq(s, 1, stop - 1)>>
            \o Pieces(SubSeq(s, stop, Len(s)), c)

\* sep.join(pieces)
RECURSIVE Join(_, _)
Join(pieces, sep) ==
  IF pieces = <<>> THEN <<>>
  ELSE IF Len(pieces) = 1 THEN pieces[1]
  ELSE pieces[1] \o sep \o Join(Tail(pieces), sep)

\* pathlib: Path(path).parts of a relative path
Parts(path) == Pieces(path, "/")

\* pathlib: Path(path).stem, the last part without its last suffix
Stem(path) ==
  LET name == IF Parts(path) = <<>> THEN <<>>
              ELSE Parts(path)[Len(Parts(path))]
      dots == {i \in DOMAIN name : name[i] = "."}
      last == CHOOSE i \in dots : \A j \in dots : j <= i
  IN IF dots # {} /\ 1 < last /\ last < Len(name)
     THEN SubSeq(name, 1, last - 1) ELSE name

\* pathlib: str(Path(path).parent)
Parent(path) ==
  IF Len(Parts(path)) <= 1 THEN <<".">>
  ELSE Join(SubSeq(Parts(path), 1, Len(Parts(path)) - 1), <<"/">>)

\* list(a_set): the elements in an order the caller cannot rely on; the model
\* fixes one order per set
RECURSIVE SetToSeq(_)
SetToSeq(S) ==
  IF S = {} THEN <<>>
  ELSE LET x == CHOOSE y \in S : TRUE IN <<x>> \o SetToSeq(S \ {x})

(***************************************************************************)
(* akg.py: the graph.                                                      *)
(***************************************************************************)
Sides == {"base", "target"}

\* AKGNode(id, type, name, file_path=None, line_range=None)
AKGNode(id, type, name, file_path, line_range) ==
  [id |-> id, type |-> type, name |-> name,
   file_path |-> file_path, line_range |-> line_range]

\* AKGEdge(source_id, target_id, relation)
AKGEdge(source_id, target_id, relation) ==
  [source_id |-> source_id, target_id |-> target_id, relation |-> relation]

\* ArchitecturalLayer(name, components)
ArchitecturalLayer(name, components) ==
  [name |-> name, components |-> components]

\* BoundedContext(name, key_entities)
BoundedContext(name, key_entities) ==
  [name |-> name, key_entities |-> key_entities]

\* ArchitecturalKnowledgeGraph.__init__: nodes = {}, edges = [], layers = [],
\* bounded_contexts = []
EmptyGraph ==
  [nodes |-> <<>>, edges |-> <<>>, layers |-> <<>>, bounded_contexts |-> <<>>,
   _evidence_map |-> <<>>]

\* self.nodes[node.id] = node   (a dict: id -> node)
PutNode(nodes, node) ==
  [k \in (DOMAIN nodes) \cup {node.id} |->
     IF k = node.id THEN node ELSE nodes[k]]

\* ArchitecturalKnowledgeGraph._generate_node_id: the first 12 hex digits of
\* the md5 of f"{node_type}:{name}", kept as the digest of that content (two
\* contents are taken to have two digests)
_generate_node_id(name, node_type) ==
  <<"md5[:12]", node_type, ":">> \o name

\* ArchitecturalKnowledgeGraph.add_node: a node without id ("if not node.id")
\* gets a generated one, then self.nodes[node.id] = node
GraphAddNode(g, node) ==
  LET keyed == IF node.id = <<>> \/ node.id = None
               THEN [node EXCEPT !.id = _generate_node_id(node.name, node.type)]
               ELSE node
  IN [g EXCEPT !.nodes = PutNode(g.nodes, keyed)]

\* ArchitecturalKnowledgeGraph.add_edge: ValueError (graph unchanged) when the
\* source is missing; a missing target becomes an "external" node
GraphAddEdge(g, edge) ==
  IF edge.source_id \notin DOMAIN g.nodes THEN g
  ELSE LET g1 == IF edge.target_id \notin DOMAIN g.nodes
                 THEN GraphAddNode(g, AKGNode(edge.target_id, "external",
                                              edge.target_id, None, None))
                 ELSE g
       IN [g1 EXCEPT !.edges = Append(g1.edges, edge)]

\* Evidence(claim_id, file_path, line_start, line_end, quote)
Evidence(claim_id, file_path, line_start, line_end, quote) ==
  [claim_id |-> claim_id, file_path |-> file_path, line_start |-> line_start,
   line_end |-> line_end, quote |-> quote]

\* ArchitecturalKnowledgeGraph.add_evidence:
\* self._evidence_map[evidence.claim_id] = evidence   (a dict, in insertion
\* order)
GraphAddEvidence(g, evidence) ==
  LET map == g._evidence_map
  IN [g EXCEPT !._evidence_map =
        IF \E i \in DOMAIN map : map[i].claim_id = evidence.claim_id
        THEN [i \in DOMAIN map |->
                IF map[i].claim_id = evidence.claim_id
                THEN evidence ELSE map[i]]
        ELSE Append(map, evidence)]

\* ArchitecturalKnowledgeGraph.add_layer
GraphAddLayer(g, layer) == [g EXCEPT !.layers = Append(g.layers, layer)]

\* ArchitecturalKnowledgeGraph.add_bounded_context
GraphAddContext(g, context) ==
  [g EXCEPT !.bounded_contexts = Append(g.bounded_contexts, context)]

\* what a graph holds: its declared (non-external) nodes, its edges, its
\* layers and its bounded contexts; the specifications bound this size
Size(g) ==
  Cardinality({k \in DOMAIN g.nodes : g.nodes[k].type # "external"})
    + Len(g.edges) + Len(g.layers) + Len(g.bounded_contexts)

\* the components of a graph's layers and the key entities of its bounded
\* contexts, counted with repetitions
RECURSIVE Held(_, _)
Held(layers, contexts) ==
  IF layers # <<>>
  THEN Len(Head(layers).components) + Held(Tail(layers), contexts)
  ELSE IF contexts # <<>>
  THEN Len(Head(contexts).key_entities) + Held(layers, Tail(contexts))
  ELSE 0

(***************************************************************************)
(* diff_engine.py: the change records.                                     *)
(***************************************************************************)
\* ChangeType
ADDED == "added"

REMOVED == "removed"

MODIFIED == "modified"

\* One formatted piece of text: the template and the values put in it
\* (a and b are strings or None, n is a number).
Text(template, a, b, n) == [template |-> template, a |-> a, b |-> b, n |-> n]

NodeChange(change_type, node_id, node_name, node_type, file_path,
           old_line_range, new_line_range, details, impact) ==
  [change_type |-> change_type, node_id |-> node_id, node_name |-> node_name,
   node_type |-> node_type, file_path |-> file_path,
   old_line_range |-> old_line_range, new_line_range |-> new_line_range,
   details |-> details, impact |-> impact]

EdgeChange(change_type, source_id, target_id, relation, details) ==
  [change_type |-> change_type, source_id |-> source_id,
   target_id |-> target_id, relation |-> relation, details |-> details]

LayerChange(change_type, layer_name, added_components, removed_components) ==
  [change_type |-> change_type, layer_name |-> layer_name,
   added_components |-> added_components,
   removed_components |-> removed_components]

ContextChange(change_type, context_name, added_entities, removed_entities) ==
  [change_type |-> change_type, context_name |-> context_name,
   added_entities |-> added_entities, removed_entities |-> removed_entities]

\* BlueprintDiff before compare_akgs has filled it
NoDiff ==
  [node_changes |-> <<>>, edge_changes |-> <<>>, layer_changes |-> <<>>,
   context_changes |-> <<>>, summary |-> <<>>, risk_level |-> "low",
   breaking_changes |-> <<>>]

\* len([c for c in changes if c.change_type == t])
CountType(changes, t) ==
  Cardinality({i \in DOMAIN changes : changes[i].change_type = t})

\* BlueprintDiff.added_count / removed_count / modified_count / total_changes
added_count(d) == CountType(d.node_changes, ADDED)
removed_count(d) == CountType(d.node_changes, REMOVED)
modified_count(d) == CountType(d.node_changes, MODIFIED)
total_changes(d) ==
  Cardinality({i \in DOMAIN d.node_changes :
                 d.node_changes[i].change_type # "unchanged"})
    + Cardinality({i \in DOMAIN d.edge_changes :
                     d.edge_changes[i].change_type # "unchanged"})

(***************************************************************************)
(* diff_engine.py: BlueprintDiffEngine.                                    *)
(***************************************************************************)
\* BlueprintDiffEngine.HIGH_IMPACT_PATTERNS
HIGH_IMPACT_PATTERNS ==
  << <<"a", "p", "i">>,
     <<"i", "n", "t", "e", "r", "f", "a", "c", "e">>,
     <<"p", "u", "b", "l", "i", "c">>,
     <<"e", "x", "p", "o", "r", "t">>,
     <<"h", "a", "n", "d", "l", "e", "r">>,
     <<"c", "o", "n", "t", "r", "o", "l", "l", "e", "r">>,
     <<"e", "n", "d", "p", "o", "i", "n", "t">>,
     <<"r", "o", "u", "t", "e">>,
     <<"s", "c", "h", "e", "m", "a">> >>

\* the list literal in _analyze_risk: ["api", "public", "export"]
EDGE_BREAKING_PATTERNS ==
  << <<"a", "p", "i">>,
     <<"p", "u", "b", "l", "i", "c">>,
     <<"e", "x", "p", "o", "r", "t">> >>

\* the literal "service" in _assess_impact
SERVICE == <<"s", "e", "r", "v", "i", "c", "e">>

\* added[:10] in _compare_layers and _compare_contexts
SliceLimit == 10

\* _nodes_differ that also takes a missing line range for a difference
Mut_nodes_differ_missing_range(base, target) ==
  IF base.type # target.type THEN TRUE
  ELSE IF base.file_path # target.file_path THEN TRUE
  ELSE IF base.line_range = None \/ base.line_range # target.line_range
  THEN TRUE
  ELSE FALSE

\* _nodes_differ that forgets the node type
Mut_nodes_differ_no_type(base, target) ==
  IF base.file_path # target.file_path THEN TRUE
  ELSE IF base.line_range # target.line_range THEN TRUE
  ELSE FALSE

\* BlueprintDiffEngine._nodes_differ
_nodes_differ(base, target) ==
  IF base.type # target.type THEN TRUE
  ELSE IF base.file_path # target.file_path THEN TRUE
  ELSE IF base.line_range # target.line_range THEN TRUE
  ELSE FALSE

\* bool(x) of an Optional tuple: None and () are false
Truthy(x) == x # None /\ x # <<>>

\* the size computation entered whenever the line ranges differ
Mut_SizeIsComputed_unguarded(base, target) ==
  base.line_range # target.line_range

\* _describe_modification reaches the size computation:
\* base.line_range != target.line_range, then
\* "if base.line_range and target.line_range"
SizeIsComputed(base, target) ==
  /\ base.line_range # target.line_range
  /\ Truthy(base.line_range) /\ Truthy(target.line_range)

\* line_range[0] and line_range[1] raise: TypeError on None, IndexError on a
\* tuple of fewer than two items
SubscriptRaises(line_range) == line_range = None \/ Len(line_range) < 2

\* _describe_modification raises instead of returning
DescribeRaises(base, target) ==
  /\ SizeIsComputed(base, target)
  /\ SubscriptRaises(base.line_range) \/ SubscriptRaises(target.line_range)

\* _describe_modification that reports the signed size difference
Mut_describe_modification_signed(base, target) ==
  LET moved ==
        IF base.file_path # target.file_path
        THEN <<Text("moved from {a} to {b}", base.file_path,
                    target.file_path, 0)>>
        ELSE <<>>
      size_diff == (target.line_range[2] - target.line_range[1])
                     - (base.line_range[2] - base.line_range[1])
      resized ==
        IF SizeIsComputed(base, target)
        THEN IF size_diff > 0
             THEN <<Text("expanded by {n} lines", None, None, size_diff)>>
             ELSE IF size_diff < 0
             THEN <<Text("reduced by {n} lines", None, None, size_diff)>>
             ELSE <<Text("position changed", None, None, 0)>>
        ELSE <<>>
      changes == moved \o resized
  IN IF changes # <<>> THEN changes
     ELSE <<Text("content modified", None, None, 0)>>

\* BlueprintDiffEngine._describe_modification: the pieces joined by "; ", or
\* "content modified" when there is none
_describe_modification(base, target) ==
  LET moved ==
        IF base.file_path # target.file_path
        THEN <<Text("moved from {a} to {b}", base.file_path,
                    target.file_path, 0)>>
        ELSE <<>>
      size_diff == (target.line_range[2] - target.line_range[1])
                     - (base.line_range[2] - base.line_range[1])
      resized ==
        IF SizeIsComputed(base, target)
        THEN IF size_diff > 0
             THEN <<Text("expanded by {n} lines", None, None, size_diff)>>
             ELSE IF size_diff < 0
             THEN <<Text("reduced by {n} lines", None, None, Abs(size_diff))>>
             ELSE <<Text("position changed", None, None, 0)>>
        ELSE <<>>
      changes == moved \o resized
  IN IF changes # <<>> THEN changes
     ELSE <<Text("content modified", None, None, 0)>>

\* _assess_impact with the service rule tried before the keyword rule
Mut_assess_impact_service_first(node) ==
  LET name_lower == Lower(node.name)
      path_lower == Lower(IF node.file_path = None THEN <<>>
                          ELSE node.file_path)
  IN IF node.type \in {"class", "interface"}
        /\ Contains(name_lower, SERVICE)
     THEN "medium"
     ELSE IF \E i \in DOMAIN HIGH_IMPACT_PATTERNS :
               \/ Contains(name_lower, HIGH_IMPACT_PATTERNS[i])
               \/ Contains(path_lower, HIGH_IMPACT_PATTERNS[i])
     THEN "high"
     ELSE "low"

\* BlueprintDiffEngine._assess_impact
_assess_impact(node) ==
  LET name_lower == Lower(node.name)
      path_lower == Lower(IF node.file_path = None THEN <<>>
                          ELSE node.file_path)
  IN IF \E i \in DOMAIN HIGH_IMPACT_PATTERNS :
          \/ Contains(name_lower, HIGH_IMPACT_PATTERNS[i])
          \/ Contains(path_lower, HIGH_IMPACT_PATTERNS[i])
     THEN "high"
     ELSE IF node.type \in {"class", "interface"}
             /\ Contains(name_lower, SERVICE)
     THEN "medium"
     ELSE "low"

\* target_nodes - base_nodes in _compare_nodes
AddedNodeIds(base_nodes, target_nodes) == target_nodes \ base_nodes

\* the removed ids, with the subtraction forgotten
Mut_RemovedNodeIds_all_base(base_nodes, target_nodes) == base_nodes

\* base_nodes - target_nodes in _compare_nodes
RemovedNodeIds(base_nodes, target_nodes) == base_nodes \ target_nodes

\* base_nodes & target_nodes in _compare_nodes
CommonNodeIds(base_nodes, target_nodes) == base_nodes \cap target_nodes

\* BlueprintDiffEngine._compare_nodes
_compare_nodes(base_akg, target_akg) ==
  LET base_nodes == DOMAIN base_akg.nodes
      target_nodes == DOMAIN target_akg.nodes
      added_ids == SetToSeq(AddedNodeIds(base_nodes, target_nodes))
      removed_ids == SetToSeq(RemovedNodeIds(base_nodes, target_nodes))
      common_ids == SetToSeq(CommonNodeIds(base_nodes, target_nodes))
      Added(node_id) ==
        LET node == target_akg.nodes[node_id]
        IN NodeChange(ADDED, node_id, node.name, node.type, node.file_path,
                      None, node.line_range,
                      <<Text("New {a} added", <<node.type>>, None, 0)>>,
                      _assess_impact(node))
      Removed(node_id) ==
        LET node == base_akg.nodes[node_id]
        IN NodeChange(REMOVED, node_id, node.name, node.type, node.file_path,
                      node.line_range, None,
                      <<Text("{a} removed", <<node.type>>, None, 0)>>,
                      _assess_impact(node))
      Modified(node_id) ==
        LET base_node == base_akg.nodes[node_id]
            target_node == target_akg.nodes[node_id]
        IN NodeChange(MODIFIED, node_id, target_node.name, target_node.type,
                      target_node.file_path, base_node.line_range,
                      target_node.line_range,
                      _describe_modification(base_node, target_node),
                      _assess_impact(target_node))
      Differ(node_id) ==
        _nodes_differ(base_akg.nodes[node_id], target_akg.nodes[node_id])
  IN [i \in DOMAIN added_ids |-> Added(added_ids[i])]
       \o [i \in DOMAIN removed_ids |-> Removed(removed_ids[i])]
       \o [i \in DOMAIN SelectSeq(common_ids, Differ) |->
             Modified(SelectSeq(common_ids, Differ)[i])]

\* edge_key without the relation
Mut_edge_key_no_relation(edge) ==
  edge.source_id \o <<"|">> \o edge.target_id

\* edge_key in _compare_edges: f"{source_id}|{target_id}|{relation}"
edge_key(edge) ==
  edge.source_id \o <<"|">> \o edge.target_id \o <<"|">> \o <<edge.relation>>

\* {edge_key(e): e for e in edges}: the last edge of each key
EdgeDict(edges) ==
  LET keys == {edge_key(edges[i]) : i \in DOMAIN edges}
      Last(k) == CHOOSE i \in DOMAIN edges :
                   /\ edge_key(edges[i]) = k
                   /\ \A j \in DOMAIN edges : edge_key(edges[j]) = k => j <= i
  IN [k \in keys |-> edges[Last(k)]]

\* BlueprintDiffEngine._compare_edges
_compare_edges(base_akg, target_akg) ==
  LET base_edges == EdgeDict(base_akg.edges)
      target_edges == EdgeDict(target_akg.edges)
      base_keys == DOMAIN base_edges
      target_keys == DOMAIN target_edges
      added_keys == SetToSeq(target_keys \ base_keys)
      removed_keys == SetToSeq(base_keys \ target_keys)
      Added(key) ==
        LET edge == target_edges[key]
        IN EdgeChange(ADDED, edge.source_id, edge.target_id, edge.relation,
                      <<Text("New {a} dependency added", <<edge.relation>>,
                             None, 0)>>)
      Removed(key) ==
        LET edge == base_edges[key]
        IN EdgeChange(REMOVED, edge.source_id, edge.target_id, edge.relation,
                      <<Text("{a} dependency removed", <<edge.relation>>,
                             None, 0)>>)
  IN [i \in DOMAIN added_keys |-> Added(added_keys[i])]
       \o [i \in DOMAIN removed_keys |-> Removed(removed_keys[i])]

\* the slice with no limit
Mut_Sliced_unlimited(S) == {SetToSeq(S)}

\* list(a_set)[:10]: which elements survive the slice depends on the set's
\* iteration order, so every choice of min(len, 10) elements is an outcome
Sliced(S) ==
  IF Cardinality(S) <= SliceLimit THEN {SetToSeq(S)}
  ELSE {SetToSeq(T) : T \in {U \in SUBSET S : Cardinality(U) = SliceLimit}}

\* {l.name: set(l.components) for l in layers}: the last layer of each name
LayerDict(layers) ==
  LET names == {layers[i].name : i \in DOMAIN layers}
      Last(n) == CHOOSE i \in DOMAIN layers :
                   /\ layers[i].name = n
                   /\ \A j \in DOMAIN layers : layers[j].name = n => j <= i
  IN [n \in names |-> Range(layers[Last(n)].components)]

\* {c.name: set(c.key_entities) for c in bounded_contexts}
ContextDict(contexts) ==
  LET names == {contexts[i].name : i \in DOMAIN contexts}
      Last(n) == CHOOSE i \in DOMAIN contexts :
                   /\ contexts[i].name = n
                   /\ \A j \in DOMAIN contexts : contexts[j].name = n => j <= i
  IN [n \in names |-> Range(contexts[Last(n)].key_entities)]

\* the body of the loop of _compare_layers for one layer name: the lists of
\* change records it can append (the empty list, or one record)
LayerLoopBody(name, base_layers, target_layers) ==
  LET base_comps == IF name \in DOMAIN base_layers
                    THEN base_layers[name] ELSE {}
      target_comps == IF name \in DOMAIN target_layers
                      THEN target_layers[name] ELSE {}
      added == target_comps \ base_comps
      removed == base_comps \ target_comps
      change_type == IF name \notin DOMAIN base_layers THEN ADDED
                     ELSE IF name \notin DOMAIN target_layers THEN REMOVED
                     ELSE MODIFIED
  IN IF added # {} \/ removed # {}
     THEN {<<LayerChange(change_type, name, a, r)>> :
             a \in Sliced(added), r \in Sliced(removed)}
     ELSE {<<>>}

\* the loop of _compare_layers over the names
RECURSIVE LayerLoop(_, _, _)
LayerLoop(names, base_layers, target_layers) ==
  IF names = <<>> THEN {<<>>}
  ELSE {first \o rest :
          first \in LayerLoopBody(Head(names), base_layers, target_layers),
          rest \in LayerLoop(Tail(names), base_layers, target_layers)}

\* BlueprintDiffEngine._compare_layers: the lists it can return
_compare_layers(base_akg, target_akg) ==
  LET base_layers == LayerDict(base_akg.layers)
      target_layers == LayerDict(target_akg.layers)
      all_layer_names == (DOMAIN base_layers) \cup (DOMAIN target_layers)
  IN LayerLoop(SetToSeq(all_layer_names), base_layers, target_layers)

\* the loop body of _compare_contexts with ADDED and REMOVED exchanged
Mut_ContextLoopBody_swapped(name, base_contexts, target_contexts) ==
  LET base_entities == IF name \in DOMAIN base_contexts
                       THEN base_contexts[name] ELSE {}
      target_entities == IF name \in DOMAIN target_contexts
                         THEN target_contexts[name] ELSE {}
      added == target_entities \ base_entities
      removed == base_entities \ target_entities
      change_type == IF name \notin DOMAIN base_contexts THEN REMOVED
                     ELSE IF name \notin DOMAIN target_contexts THEN ADDED
                     ELSE MODIFIED
  IN IF added # {} \/ removed # {}
     THEN {<<ContextChange(change_type, name, a, r)>> :
             a \in Sliced(added), r \in Sliced(removed)}
     ELSE {<<>>}

\* the body of the loop of _compare_contexts for one context name
ContextLoopBody(name, base_contexts, target_contexts) ==
  LET base_entities == IF name \in DOMAIN base_contexts
                       THEN base_contexts[name] ELSE {}
      target_entities == IF name \in DOMAIN target_contexts
                         THEN target_contexts[name] ELSE {}
      added == target_entities \ base_entities
      removed == base_entities \ target_entities
      change_type == IF name \notin DOMAIN base_contexts THEN ADDED
                     ELSE IF name \notin DOMAIN target_contexts THEN REMOVED
                     ELSE MODIFIED
  IN IF added # {} \/ removed # {}
     THEN {<<ContextChange(change_type, name, a, r)>> :
             a \in Sliced(added), r \in Sliced(removed)}
     ELSE {<<>>}

\* the loop of _compare_contexts over the names
RECURSIVE ContextLoop(_, _, _)
ContextLoop(names, base_contexts, target_contexts) ==
  IF names = <<>> THEN {<<>>}
  ELSE {first \o rest :
          first \in ContextLoopBody(Head(names), base_contexts,
                                    target_contexts),
          rest \in ContextLoop(Tail(names), base_contexts, target_contexts)}

\* BlueprintDiffEngine._compare_contexts: the lists it can return
_compare_contexts(base_akg, target_akg) ==
  LET base_contexts == ContextDict(base_akg.bounded_contexts)
      target_contexts == ContextDict(target_akg.bounded_contexts)
      all_context_names == (DOMAIN base_contexts) \cup (DOMAIN target_contexts)
  IN ContextLoop(SetToSeq(all_context_names), base_contexts, target_contexts)

\* the edge test with the source id in place of the target id
Mut_EdgeIsBreaking_source(edge_change) ==
  \E i \in DOMAIN EDGE_BREAKING_PATTERNS :
    Contains(Lower(edge_change.source_id), EDGE_BREAKING_PATTERNS[i])

\* the edge test of _analyze_risk:
\* any(p in edge_change.target_id.lower() for p in ["api", "public", "export"])
EdgeIsBreaking(edge_change) ==
  \E i \in DOMAIN EDGE_BREAKING_PATTERNS :
    Contains(Lower(edge_change.target_id), EDGE_BREAKING_PATTERNS[i])

\* high_impact_changes that also takes the ADDED changes
Mut_high_impact_changes_added(d) ==
  LET Hit(c) == c.impact = "high"
  IN SelectSeq(d.node_changes, Hit)

\* high_impact_changes in _analyze_risk
high_impact_changes(d) ==
  LET Hit(c) == c.impact = "high" /\ c.change_type \in {REMOVED, MODIFIED}
  IN SelectSeq(d.node_changes, Hit)

\* the first loop of _analyze_risk: a message per REMOVED change of
\* high_impact_changes
BreakingNodeMessages(high) ==
  LET IsRemoved(c) == c.change_type = REMOVED
      removed_high == SelectSeq(high, IsRemoved)
  IN [i \in DOMAIN removed_high |->
        Text("Removed {a} '{b}' (potentially breaking)",
             <<removed_high[i].node_type>>, removed_high[i].node_name, 0)]

\* the second loop of _analyze_risk: a message per REMOVED edge change that
\* passes the edge test
BreakingEdgeMessages(edge_changes) ==
  LET Hit(c) == c.change_type = REMOVED /\ EdgeIsBreaking(c)
      removed_edges == SelectSeq(edge_changes, Hit)
  IN [i \in DOMAIN removed_edges |->
        Text("Removed dependency to '{a}'", removed_edges[i].target_id,
             None, 0)]

\* the risk thresholds with >= in place of > on the first
Mut_RiskLevel_critical_at_5(breaking_count, high_count) ==
  IF breaking_count >= 5 THEN "critical"
  ELSE IF breaking_count > 2 THEN "high"
  ELSE IF high_count > 3 THEN "medium"
  ELSE "low"

\* "Determine overall risk" in _analyze_risk
RiskLevel(breaking_count, high_count) ==
  IF breaking_count > 5 THEN "critical"
  ELSE IF breaking_count > 2 THEN "high"
  ELSE IF high_count > 3 THEN "medium"
  ELSE "low"

\* BlueprintDiffEngine._analyze_risk: the diff with breaking_changes and
\* risk_level set
_analyze_risk(d) ==
  LET high == high_impact_changes(d)
      breaking == d.breaking_changes \o BreakingNodeMessages(high)
                    \o BreakingEdgeMessages(d.edge_changes)
  IN [d EXCEPT !.breaking_changes = breaking,
               !.risk_level = RiskLevel(Len(breaking), Len(high))]

\* BlueprintDiffEngine._generate_summary
_generate_summary(d) ==
  LET parts ==
        (IF added_count(d) > 0
         THEN <<Text("{n} components added", None, None, added_count(d))>>
         ELSE <<>>)
        \o (IF removed_count(d) > 0
            THEN <<Text("{n} components removed", None, None,
                        removed_count(d))>>
            ELSE <<>>)
        \o (IF modified_count(d) > 0
            THEN <<Text("{n} components modified", None, None,
                        modified_count(d))>>
            ELSE <<>>)
  IN IF parts = <<>>
     THEN <<Text("No architectural changes detected", None, None, 0)>>
     ELSE <<Text("Architecture changes: ", None, None, 0)>> \o parts
          \o (IF d.breaking_changes # <<>>
              THEN <<Text(" {n} potential breaking change(s).", None, None,
                          Len(d.breaking_changes))>>
              ELSE <<>>)
          \o (IF d.layer_changes # <<>>
              THEN <<Text(" Layer structure affected.", None, None, 0)>>
              ELSE <<>>)

\* BlueprintDiffEngine.compare_akgs, given what _compare_layers and
\* _compare_contexts returned
CompareResult(base_akg, target_akg, layer_changes, context_changes) ==
  LET d1 == [NoDiff EXCEPT
               !.node_changes = _compare_nodes(base_akg, target_akg),
               !.edge_changes = _compare_edges(base_akg, target_akg),
               !.layer_changes = layer_changes,
               !.context_changes = context_changes]
      d2 == _analyze_risk(d1)
  IN [d2 EXCEPT !.summary = _generate_summary(d2)]

(***************************************************************************)
(* akg_builder.py: AKGBuilder.  A builder's dicts (parsed_files, modules)  *)
(* are sequences in insertion order; the key of a parsed file is its path  *)
(* relative to the repository.                                             *)
(***************************************************************************)
\* ParsedSymbol(name, type, file_path, line_start, line_end, signature)
ParsedSymbol(name, type, line_start, line_end, signature) ==
  [name |-> name, type |-> type, line_start |-> line_start,
   line_end |-> line_end, signature |-> signature]

\* ParsedFile(file_path, language, symbols, imports); imports holds the
\* module of each ParsedImport
ParsedFile(file_path, symbols, imports) ==
  [file_path |-> file_path, symbols |-> symbols, imports |-> imports,
   errors |-> <<>>]

\* what parse_file returns for a file it cannot read: no symbol, no import,
\* and the error
UnreadableFile(file_path) ==
  [ParsedFile(file_path, <<>>, <<>>) EXCEPT
     !.errors = <<"Failed to read file">>]

\* ParsedFile.classes
classes(parsed) ==
  LET IsClass(s) == s.type = "class" IN SelectSeq(parsed.symbols, IsClass)

\* ModuleInfo(path, language, imports, exports, classes, functions)
ModuleInfo(path, imports, module_classes) ==
  [path |-> path, imports |-> imports, classes |-> module_classes]

\* AKGBuilder._build_module_info: the ModuleInfo stored under the path
_build_module_info(path, parsed) ==
  ModuleInfo(path, parsed.imports,
             [i \in DOMAIN classes(parsed) |-> classes(parsed)[i].name])

\* self.parsed_files[rel_path] = parsed
PutParsedFile(parsed_files, parsed) ==
  IF \E i \in DOMAIN parsed_files :
       parsed_files[i].file_path = parsed.file_path
  THEN [i \in DOMAIN parsed_files |->
          IF parsed_files[i].file_path = parsed.file_path
          THEN parsed ELSE parsed_files[i]]
  ELSE Append(parsed_files, parsed)

\* self.modules[path] = module
PutModule(modules, module) ==
  IF \E i \in DOMAIN modules : modules[i].path = module.path
  THEN [i \in DOMAIN modules |->
          IF modules[i].path = module.path THEN module ELSE modules[i]]
  ELSE Append(modules, module)

\* self.modules[path]
ModuleAt(modules, path) ==
  modules[CHOOSE i \in DOMAIN modules : modules[i].path = path]

\* AKGBuilder.__init__; built tells whether build_akg has run and how it ended
EmptyBuilder ==
  [parsed_files |-> <<>>, modules |-> <<>>, dependency_graph |-> <<>>,
   built |-> "no", warned |-> <<>>]

\* "for path in self.modules: if <test>: return path": the first path, in
\* insertion order, that passes, or None
FirstModule(modules, Test(_)) ==
  IF \E i \in DOMAIN modules : Test(modules[i].path)
  THEN modules[CHOOSE i \in DOMAIN modules :
                 /\ Test(modules[i].path)
                 /\ \A j \in 1..(i - 1) : ~ Test(modules[j].path)].path
  ELSE None

\* rule 1 of _resolve_import, "Try direct match"
DirectMatch(path, import_name) ==
  Stem(path) = import_name \/ EndsWith(import_name, Stem(path))

\* rule 2 of _resolve_import, "Try path-based match"
PathMatch(path, import_name) ==
  Contains(path, ReplaceChar(import_name, ".", <<"/">>))

\* rule 3 of _resolve_import, "Relative imports"
RelativeMatch(path, from_path, import_name) ==
  /\ StartsWith(import_name, <<".">>)
  /\ Contains(path, Parent(from_path) \o <<"/">> \o LStrip(import_name, "."))

\* AKGBuilder._resolve_import
_resolve_import(modules, from_path, import_name) ==
  LET Rule1(path) == DirectMatch(path, import_name)
      Rule2(path) == PathMatch(path, import_name)
      Rule3(path) == RelativeMatch(path, from_path, import_name)
  IN IF FirstModule(modules, Rule1) # None THEN FirstModule(modules, Rule1)
     ELSE IF FirstModule(modules, Rule2) # None
     THEN FirstModule(modules, Rule2)
     ELSE FirstModule(modules, Rule3)

\* the edges a DiGraph holds after add_edge(u, v): a repeated pair is one edge
AddGraphEdge(edges, u, v) ==
  IF \E i \in DOMAIN edges : edges[i] = <<u, v>> THEN edges
  ELSE Append(edges, <<u, v>>)

\* the inner loop of build_dependency_graph: the imports of one module
RECURSIVE ImportLoop(_, _, _, _)
ImportLoop(edges, modules, path, imports) ==
  IF imports = <<>> THEN edges
  ELSE LET resolved == _resolve_import(modules, path, Head(imports))
           known == /\ resolved # None /\ resolved # <<>>
                    /\ \E i \in DOMAIN modules : modules[i].path = resolved
       IN ImportLoop(IF known THEN AddGraphEdge(edges, path, resolved)
                     ELSE edges,
                     modules, path, Tail(imports))

\* the outer loop of build_dependency_graph, over the modules from position k
RECURSIVE ModuleLoop(_, _, _)
ModuleLoop(edges, modules, k) ==
  IF k > Len(modules) THEN edges
  ELSE ModuleLoop(ImportLoop(edges, modules, modules[k].path,
                             modules[k].imports),
                  modules, k + 1)

\* DiGraph.edges(): by source node in the order the nodes were added, then by
\* target in the order the edges were added
EdgesView(edges, modules) ==
  LET RECURSIVE From(_)
      From(k) ==
        IF k > Len(modules) THEN <<>>
        ELSE LET Leaves(edge) == edge[1] = modules[k].path
             IN SelectSeq(edges, Leaves) \o From(k + 1)
  IN From(1)

\* AKGBuilder.build_dependency_graph: the edges of self.dependency_graph
build_dependency_graph(modules) == ModuleLoop(<<>>, modules, 1)

\* AKGBuilder.LAYER_PATTERNS, in the order of the dict
LAYER_PATTERNS ==
  << [layer |-> <<"p", "r", "e", "s", "e", "n", "t", "a", "t", "i", "o", "n">>,
      patterns |-> << <<"c", "o", "n", "t", "r", "o", "l", "l", "e", "r">>, <<"v", "i", "e", "w">>, <<"c", "o", "m", "p", "o", "n", "e", "n", "t">>, <<"p", "a", "g", "e">>,
                      <<"s", "c", "r", "e", "e", "n">>, <<"h", "a", "n", "d", "l", "e", "r">>, <<"r", "o", "u", "t", "e">>, <<"a", "p", "i">>,
                      <<"e", "n", "d", "p", "o", "i", "n", "t">>, <<"u", "i">>, <<"f", "r", "o", "n", "t", "e", "n", "d">> >>],
     [layer |-> <<"b", "u", "s", "i", "n", "e", "s", "s">>,
      patterns |-> << <<"s", "e", "r", "v", "i", "c", "e">>, <<"u", "s", "e", "c", "a", "s", "e">>, <<"d", "o", "m", "a", "i", "n">>, <<"b", "u", "s", "i", "n", "e", "s", "s">>,
                      <<"c", "o", "r", "e">>, <<"l", "o", "g", "i", "c">>, <<"m", "a", "n", "a", "g", "e", "r">>, <<"p", "r", "o", "c", "e", "s", "s", "o", "r">>,
                      <<"e", "n", "g", "i", "n", "e">>, <<"w", "o", "r", "k", "f", "l", "o", "w">> >>],
     [layer |-> <<"d", "a", "t", "a">>,
      patterns |-> << <<"r", "e", "p", "o", "s", "i", "t", "o", "r", "y">>, <<"d", "a", "o">>, <<"m", "o", "d", "e", "l">>, <<"e", "n", "t", "i", "t", "y">>,
                      <<"s", "c", "h", "e", "m", "a">>, <<"d", "a", "t", "a", "b", "a", "s", "e">>, <<"d", "b">>, <<"s", "t", "o", "r", "e">>,
                      <<"p", "e", "r", "s", "i", "s", "t", "e", "n", "c", "e">>, <<"o", "r", "m">> >>],
     [layer |-> <<"i", "n", "f", "r", "a", "s", "t", "r", "u", "c", "t", "u", "r", "e">>,
      patterns |-> << <<"c", "o", "n", "f", "i", "g">>, <<"u", "t", "i", "l">>, <<"h", "e", "l", "p", "e", "r">>, <<"c", "o", "m", "m", "o", "n">>,
                      <<"s", "h", "a", "r", "e", "d">>, <<"m", "i", "d", "d", "l", "e", "w", "a", "r", "e">>, <<"a", "d", "a", "p", "t", "e", "r">>, <<"c", "l", "i", "e", "n", "t">>,
                      <<"p", "r", "o", "v", "i", "d", "e", "r">> >>] >>

\* the layer whose patterns are tried first
Mut_FirstLayerMatch_last(path_lower) ==
  LET Matches(k) ==
        \E j \in DOMAIN LAYER_PATTERNS[k].patterns :
          Contains(path_lower, LAYER_PATTERNS[k].patterns[j])
  IN IF \E k \in DOMAIN LAYER_PATTERNS : Matches(k)
     THEN LAYER_PATTERNS[CHOOSE k \in DOMAIN LAYER_PATTERNS :
                           /\ Matches(k)
                           /\ \A m \in DOMAIN LAYER_PATTERNS :
                                Matches(m) => m <= k].layer
     ELSE None

\* the two nested loops of detect_layers: the first layer, in the order of
\* LAYER_PATTERNS, one of whose patterns is in path_lower; None if there is none
FirstLayerMatch(path_lower) ==
  LET Matches(k) ==
        \E j \in DOMAIN LAYER_PATTERNS[k].patterns :
          Contains(path_lower, LAYER_PATTERNS[k].patterns[j])
  IN IF \E k \in DOMAIN LAYER_PATTERNS : Matches(k)
     THEN LAYER_PATTERNS[CHOOSE k \in DOMAIN LAYER_PATTERNS :
                           /\ Matches(k)
                           /\ \A m \in 1..(k - 1) : ~ Matches(m)].layer
     ELSE None

\* "Default based on file location" in detect_layers
DefaultLayer(path) ==
  IF Contains(path, <<"/", "a", "p", "i", "/">>) \/ Contains(path, <<"/", "r", "o", "u", "t", "e", "s", "/">>)
  THEN <<"p", "r", "e", "s", "e", "n", "t", "a", "t", "i", "o", "n">>
  ELSE IF Contains(path, <<"/", "s", "e", "r", "v", "i", "c", "e", "s", "/">>) \/ Contains(path, <<"/", "d", "o", "m", "a", "i", "n", "/">>)
  THEN <<"b", "u", "s", "i", "n", "e", "s", "s">>
  ELSE IF Contains(path, <<"/", "m", "o", "d", "e", "l", "s", "/">>) \/ Contains(path, <<"/", "d", "b", "/">>)
  THEN <<"d", "a", "t", "a">>
  ELSE <<"i", "n", "f", "r", "a", "s", "t", "r", "u", "c", "t", "u", "r", "e">>

\* the body of the loop of detect_layers: the layer assigned to one path
LayerOfPath(path) ==
  IF FirstLayerMatch(Lower(path)) # None THEN FirstLayerMatch(Lower(path))
  ELSE DefaultLayer(path)

\* AKGBuilder.detect_layers: layer_assignments, a dict in the order of
\* self.modules
detect_layers(modules) ==
  [i \in DOMAIN modules |->
     [path |-> modules[i].path, layer |-> LayerOfPath(modules[i].path)]]

\* the conventional wrapper directories of detect_bounded_contexts
WRAPPER_DIRECTORIES == {<<"s", "r", "c">>, <<"l", "i", "b">>, <<"p", "k", "g">>, <<"a", "p", "p">>, <<"i", "n", "t", "e", "r", "n", "a", "l">>}

\* the context a path belongs to in detect_bounded_contexts; None when the
\* path is skipped
ContextNameOf(path) ==
  LET parts == Parts(path)
  IN IF Len(parts) >= 2
     THEN IF parts[1] \in WRAPPER_DIRECTORIES
          THEN IF Len(parts) >= 3 THEN parts[2] ELSE None
          ELSE parts[1]
     ELSE None

\* "if cls not in key_entities: key_entities.append(cls)" for each class
RECURSIVE AppendNew(_, _)
AppendNew(key_entities, names) ==
  IF names = <<>> THEN key_entities
  ELSE AppendNew(IF \E i \in DOMAIN key_entities :
                      key_entities[i] = Head(names)
                 THEN key_entities ELSE Append(key_entities, Head(names)),
                 Tail(names))

\* the loop of detect_bounded_contexts from position k; contexts is the dict
\* context_name -> BoundedContext, in insertion order
RECURSIVE ContextsLoop(_, _, _)
ContextsLoop(contexts, modules, k) ==
  IF k > Len(modules) THEN contexts
  ELSE LET context_name == ContextNameOf(modules[k].path)
           with_key ==
             IF \E i \in DOMAIN contexts : contexts[i].key = context_name
             THEN contexts
             ELSE Append(contexts,
                         [key |-> context_name,
                          context |-> BoundedContext(Title(context_name),
                                                     <<>>)])
           filled ==
             [i \in DOMAIN with_key |->
                IF with_key[i].key = context_name
                THEN [with_key[i] EXCEPT !.context.key_entities =
                        AppendNew(@, modules[k].classes)]
                ELSE with_key[i]]
       IN ContextsLoop(IF context_name = None THEN contexts ELSE filled,
                       modules, k + 1)

\* AKGBuilder.detect_bounded_contexts: list(contexts.values())
detect_bounded_contexts(modules) ==
  LET contexts == ContextsLoop(<<>>, modules, 1)
  IN [i \in DOMAIN contexts |-> contexts[i].context]

\* "Add layer information": layer_groups, a dict layer -> paths in the order
\* the layers are first met
RECURSIVE GroupLayers(_, _)
GroupLayers(layer_groups, assignments) ==
  IF assignments = <<>> THEN layer_groups
  ELSE LET a == Head(assignments)
           with_key ==
             IF \E i \in DOMAIN layer_groups : layer_groups[i].layer = a.layer
             THEN layer_groups
             ELSE Append(layer_groups, [layer |-> a.layer, paths |-> <<>>])
       IN GroupLayers([i \in DOMAIN with_key |->
                         IF with_key[i].layer = a.layer
                         THEN [with_key[i] EXCEPT !.paths = Append(@, a.path)]
                         ELSE with_key[i]],
                      Tail(assignments))

\* "for ctx in contexts: akg.add_bounded_context(ctx)"
RECURSIVE AddContexts(_, _)
AddContexts(g, contexts) ==
  IF contexts = <<>> THEN g
  ELSE AddContexts(GraphAddContext(g, Head(contexts)), Tail(contexts))

\* "for layer_name, modules in layer_groups.items(): akg.add_layer(...)"
RECURSIVE AddLayers(_, _)
AddLayers(g, layer_groups) ==
  IF layer_groups = <<>> THEN g
  ELSE AddLayers(GraphAddLayer(g, ArchitecturalLayer(
                                    Title(Head(layer_groups).layer),
                                    Head(layer_groups).paths)),
                 Tail(layer_groups))

\* the id build_akg gives a symbol, and an edge end: f"{path}:{name}"
SymbolId(path, name) == path \o <<":">> \o name

\* the claim id of a symbol's evidence: f"exists:{symbol.name}"
EvidenceId(name) == <<"e", "x", "i", "s", "t", "s", ":">> \o name

\* "for symbol in parsed.symbols": a node and its evidence for each class or
\* interface of the file at path
RECURSIVE AddSymbols(_, _, _)
AddSymbols(g, path, symbols) ==
  IF symbols = <<>> THEN g
  ELSE LET symbol == Head(symbols)
           node == AKGNode(SymbolId(path, symbol.name), symbol.type,
                           symbol.name, path,
                           <<symbol.line_start, symbol.line_end>>)
           evidence ==
             Evidence(EvidenceId(symbol.name), path, symbol.line_start,
                      symbol.line_end,
                      IF symbol.signature # None /\ symbol.signature # <<>>
                      THEN symbol.signature
                      ELSE <<symbol.type>> \o <<" ">> \o symbol.name)
       IN AddSymbols(IF symbol.type \in {"class", "interface"}
                     THEN GraphAddEvidence(GraphAddNode(g, node), evidence)
                     ELSE g,
                     path, Tail(symbols))

\* "Add nodes for each class/interface": the modules from position k
RECURSIVE AddNodes(_, _, _, _)
AddNodes(g, modules, parsed_files, k) ==
  IF k > Len(modules) THEN g
  ELSE LET path == modules[k].path
           found == {i \in DOMAIN parsed_files :
                       parsed_files[i].file_path = path}
       IN AddNodes(IF found = {} THEN g
                   ELSE AddSymbols(g, path,
                                   parsed_files[CHOOSE i \in found : TRUE]
                                     .symbols),
                   modules, parsed_files, k + 1)

\* the end of a dependency edge: the first class of the module, or the stem
\* of its path
EdgeEnd(modules, path) ==
  LET module_classes == ModuleAt(modules, path).classes
  IN SymbolId(path, IF module_classes # <<>> THEN module_classes[1]
                    ELSE Stem(path))

\* "Add edges from dependencies": the outcome is the graph, or raised when
\* akg.add_edge raises ValueError for a source that is not a node
RECURSIVE AddEdges(_, _, _)
AddEdges(g, modules, edges) ==
  IF edges = <<>> THEN [raised |-> FALSE, akg |-> g]
  ELSE LET edge == AKGEdge(EdgeEnd(modules, Head(edges)[1]),
                           EdgeEnd(modules, Head(edges)[2]), "depends_on")
       IN IF edge.source_id \notin DOMAIN g.nodes
          THEN [raised |-> TRUE, akg |-> g]
          ELSE AddEdges(GraphAddEdge(g, edge), modules, Tail(edges))

\* AKGBuilder.build_akg, given the dependency graph it has just built
BuildResult(modules, parsed_files, dependency_graph) ==
  LET g1 == AddContexts(EmptyGraph, detect_bounded_contexts(modules))
      g2 == AddLayers(g1, GroupLayers(<<>>, detect_layers(modules)))
      g3 == AddNodes(g2, modules, parsed_files, 1)
  IN AddEdges(g3, modules, EdgesView(dependency_graph, modules))

(***************************************************************************)
(* The version navigator (backend/app/core/git_navigator.py) and the       *)
(* directories it works on.  The event loop runs one coroutine at a time,  *)
(* so the code between two awaits is one step; git runs in the executor,   *)
(* and each of its calls returns in a step of its own.                     *)
(***************************************************************************)
\* the navigators (NavSpec) or the requests, each with its own navigator
\* (RequestSpec)
Ids == {1, 2}

\* the names tempfile.mkdtemp can give
TempNames == 1..MaxTempDirs

\* the refs of the repository, and the refs a caller may ask for
RepoRefs == {"main", "dev"}

Refs == RepoRefs \cup {"gone"}

\* a scratch directory that does not exist
AbsentDir == [exists |-> FALSE, maker |-> 0, writers |-> {}, head |-> ""]

\* a scratch directory as tempfile.mkdtemp, called by navigator n, leaves
\* it: there, and empty
NewDir(n) == [exists |-> TRUE, maker |-> n, writers |-> {}, head |-> ""]

\* self.repos_path / folder_name when it does not exist
NoRepoDir ==
  [exists |-> FALSE, complete |-> FALSE, cloned_by |-> 0, head |-> ""]

\* self.repos_path / folder_name while Repo.clone_from of request r fills it
PartialRepoDir(r) ==
  [exists |-> TRUE, complete |-> FALSE, cloned_by |-> r, head |-> ""]

\* self.repos_path / folder_name once Repo.clone_from of request r is done:
\* the default branch is checked out
ClonedRepoDir(r) ==
  [exists |-> TRUE, complete |-> TRUE, cloned_by |-> r, head |-> "main"]

EmptyDisk == [repo |-> NoRepoDir, temps |-> [d \in TempNames |-> AbsentDir]]

\* shutil.rmtree(temp_dir, ignore_errors=True)
rmtree(temps, temp_dir) == [temps EXCEPT ![temp_dir] = AbsentDir]

\* the names tempfile.mkdtemp may return: it creates a directory that did
\* not exist
Mut_mkdtemp_any(temps) == TempNames

mkdtemp(temps) == {d \in TempNames : ~temps[d].exists}

\* navigator = None
NoNavigator == [made |-> FALSE, repo |-> FALSE, _temp_dirs |-> <<>>]

\* GitHistoryNavigator(repo_path)
GitHistoryNavigator == [made |-> TRUE, repo |-> FALSE, _temp_dirs |-> <<>>]

\* list.remove(x): the list without the first x
RECURSIVE ListRemove(_, _)
ListRemove(list, x) ==
  IF list = <<>> THEN <<>>
  ELSE IF Head(list) = x THEN Tail(list)
       ELSE <<Head(list)>> \o ListRemove(Tail(list), x)

\* the loop of close(): rmtree of each tracked directory
RECURSIVE RmtreeEach(_, _)
RmtreeEach(temps, dirs) ==
  IF dirs = <<>> THEN temps
  ELSE RmtreeEach(rmtree(temps, Head(dirs)), Tail(dirs))

\* navigator.close(): every tracked directory is removed, then the list is
\* cleared
Mut_Close_first_only(nav, dsk) ==
  IF nav._temp_dirs = <<>> THEN [navigator |-> nav, disk |-> dsk]
  ELSE [navigator |-> [nav EXCEPT !._temp_dirs = Tail(@)],
        disk |-> [dsk EXCEPT !.temps = rmtree(@, Head(nav._temp_dirs))]]

Close(nav, dsk) ==
  [navigator |-> [nav EXCEPT !._temp_dirs = <<>>],
   disk |-> [dsk EXCEPT !.temps = RmtreeEach(@, nav._temp_dirs)]]

\* navigator.open() raises: the repository path does not exist
OpenRaises(dsk) == ~dsk.repo.exists

\* checkout_to_temp up to its first await: the directory is made and tracked
Track(nav, dsk, n, temp_dir) ==
  [navigator |-> [nav EXCEPT !.repo = TRUE,
                             !._temp_dirs = Append(@, temp_dir)],
   disk |-> [dsk EXCEPT !.temps[temp_dir] = NewDir(n)]]

\* git.Repo.clone_from(str(self.repo_path), str(temp_dir), no_checkout=True)
\* can succeed: there is a whole repository to clone from
Cloneable(dsk) == dsk.repo.exists /\ dsk.repo.complete

\* what clone_from of navigator n writes: the scratch directory only
CloneFrom(dsk, n, temp_dir) ==
  [dsk EXCEPT !.temps[temp_dir].writers = @ \cup {n}]

\* temp_repo.git.checkout(ref) on temp_repo = Repo(temp_dir): the scratch
\* directory's work tree and HEAD
Checkout(dsk, n, temp_dir, ref) ==
  [dsk EXCEPT !.temps[temp_dir].head = ref,
              !.temps[temp_dir].writers = @ \cup {n}]

\* the except branch of checkout_to_temp: the directory is removed and no
\* longer tracked (the error is raised again by the caller of this)
Mut_Abandon_keeps_tracking(nav, dsk, temp_dir) ==
  [navigator |-> nav,
   disk |-> [dsk EXCEPT !.temps = rmtree(@, temp_dir)]]

Abandon(nav, dsk, temp_dir) ==
  [navigator |-> [nav EXCEPT !._temp_dirs = ListRemove(@, temp_dir)],
   disk |-> [dsk EXCEPT !.temps = rmtree(@, temp_dir)]]

\* RepositoryAnalyzer.clone up to its await: the folder of the URL is removed
\* if it exists ("Clean up if exists")
CleanUpExisting(dsk) == [dsk EXCEPT !.repo = NoRepoDir]

\* RepositoryAnalyzer.cleanup(): the folder of the URL is removed if it exists
cleanup(dsk) == [dsk EXCEPT !.repo = NoRepoDir]

\* the finally block of the routes: navigator.close() if a navigator was
\* made, then repo_analyzer.cleanup()
Mut_Finally_no_close(nav, dsk) ==
  [navigator |-> nav, disk |-> cleanup(dsk)]

Finally(nav, dsk) ==
  LET closed == IF nav.made THEN Close(nav, dsk)
                ELSE [navigator |-> nav, disk |-> dsk]
  IN [navigator |-> closed.navigator, disk |-> cleanup(closed.disk)]

\* the records _run_diff and create_diff store
Processing == [status |-> "processing", result |-> "None", error |-> "None"]

Failed == [status |-> "failed", result |-> "None", error |-> "str(e)"]

Completed == [status |-> "completed", result |-> "diff", error |-> "None"]

\* a coroutine that has not been started
IdleTask ==
  [at |-> "idle", kind |-> "", ref |-> "", temp_dir |-> 0, base_ref |-> "",
   target_ref |-> "", outcome |-> "", calls |-> 0, closes |-> 0]

\* a request that has no record in the store
NoRecord == [status |-> "", result |-> "", error |-> ""]

\* the checkout_to_temp calls made so far
Calls == task[1].calls + task[2].calls

(***************************************************************************)
(* The operations.                                                         *)
(***************************************************************************)
TotalSize(graphs) == Size(graphs["base"]) + Size(graphs["target"])

TotalHeld(graphs) ==
  Held(graphs["base"].layers, graphs["base"].bounded_contexts)
    + Held(graphs["target"].layers, graphs["target"].bounded_contexts)

\* akg.add_node(node) on one of the two graphs
add_node(side, node, max) ==
  /\ pc = "building"
  /\ akg' = [akg EXCEPT ![side] = GraphAddNode(@, node)]
  /\ TotalSize(akg') <= max
  /\ UNCHANGED <<diff, pc, builder>>
  /\ UNCHANGED web

\* akg.add_edge(edge) on one of the two graphs
add_edge(side, edge, max) ==
  /\ pc = "building"
  /\ akg' = [akg EXCEPT ![side] = GraphAddEdge(@, edge)]
  /\ TotalSize(akg') <= max
  /\ UNCHANGED <<diff, pc, builder>>
  /\ UNCHANGED web

\* akg.add_layer(layer) on one of the two graphs, with a name it has not yet
add_layer(side, layer, max) ==
  /\ pc = "building"
  /\ \A i \in DOMAIN akg[side].layers : akg[side].layers[i].name # layer.name
  /\ akg' = [akg EXCEPT ![side] = GraphAddLayer(@, layer)]
  /\ TotalSize(akg') <= max
  /\ TotalHeld(akg') <= MaxComponents
  /\ UNCHANGED <<diff, pc, builder>>
  /\ UNCHANGED web

\* akg.add_bounded_context(context) on one of the two graphs, with a name it
\* has not yet
add_bounded_context(side, context, max) ==
  /\ pc = "building"
  /\ \A i \in DOMAIN akg[side].bounded_contexts :
       akg[side].bounded_contexts[i].name # context.name
  /\ akg' = [akg EXCEPT ![side] = GraphAddContext(@, context)]
  /\ TotalSize(akg') <= max
  /\ TotalHeld(akg') <= MaxComponents
  /\ UNCHANGED <<diff, pc, builder>>
  /\ UNCHANGED web

\* compare_akgs raises: the only call of it that can is
\* _describe_modification, made by _compare_nodes for each common id whose
\* nodes differ
CompareRaises(base_akg, target_akg) ==
  \E node_id \in CommonNodeIds(DOMAIN base_akg.nodes, DOMAIN target_akg.nodes) :
    /\ _nodes_differ(base_akg.nodes[node_id], target_akg.nodes[node_id])
    /\ DescribeRaises(base_akg.nodes[node_id], target_akg.nodes[node_id])

\* engine.compare_akgs(base_akg, target_akg): it returns the diff, or raises
\* and returns nothing; it assigns to neither graph
compare_akgs ==
  /\ pc = "building"
  /\ IF CompareRaises(akg["base"], akg["target"])
     THEN pc' = "error" /\ UNCHANGED diff
     ELSE /\ \E layer_changes \in _compare_layers(akg["base"], akg["target"]),
                context_changes \in
                  _compare_contexts(akg["base"], akg["target"]) :
               diff' = CompareResult(akg["base"], akg["target"],
                                     layer_changes, context_changes)
          /\ pc' = "done"
  /\ UNCHANGED <<akg, builder>>
  /\ UNCHANGED web

\* builder.parse_directory([file]) with a file the parser supports and
\* parses: self.parsed_files[rel_path] = parsed, then _build_module_info
parse_directory(side, parsed, max) ==
  /\ pc = "building"
  /\ builder[side].built = "no"
  /\ builder' = [builder EXCEPT
       ![side].parsed_files = PutParsedFile(@, parsed),
       ![side].modules =
         PutModule(@, _build_module_info(parsed.file_path, parsed))]
  /\ Len(builder'[side].parsed_files) <= max
  /\ UNCHANGED <<akg, diff, pc>>
  /\ UNCHANGED web

\* builder.parse_directory([file]) with a file whose parse raises: the except
\* branch logs the failure (warned: the files logged) and the loop goes on
parse_directory_raises(side, file_path, max) ==
  /\ pc = "building"
  /\ builder[side].built = "no"
  /\ builder' = [builder EXCEPT ![side].warned = Append(@, file_path)]
  /\ Len(builder'[side].warned) + Len(builder'[side].parsed_files) <= max
  /\ UNCHANGED <<akg, diff, pc>>
  /\ UNCHANGED web

\* akg = builder.build_akg(): the graph is returned, or add_edge raises and
\* no graph is; self.dependency_graph is rebuilt either way
build_akg(side) ==
  /\ pc = "building"
  /\ builder[side].built = "no"
  /\ builder[side].parsed_files # <<>>
  /\ LET dependency_graph == build_dependency_graph(builder[side].modules)
         result == BuildResult(builder[side].modules,
                               builder[side].parsed_files, dependency_graph)
     IN /\ builder' = [builder EXCEPT
             ![side].dependency_graph = dependency_graph,
             ![side].built = IF result.raised THEN "error" ELSE "yes"]
        /\ akg' = IF result.raised THEN akg
                  ELSE [akg EXCEPT ![side] = result.akg]
  /\ UNCHANGED <<diff, pc>>
  /\ UNCHANGED web

\* navigator.open() on a navigator that is not open
open(n) ==
  /\ navigator[n].made /\ ~navigator[n].repo
  /\ task[n].at = "idle"
  /\ IF OpenRaises(disk)
     THEN /\ task' = [task EXCEPT ![n].outcome = "raised"]
          /\ UNCHANGED navigator
     ELSE /\ navigator' = [navigator EXCEPT ![n].repo = TRUE]
          /\ task' = [task EXCEPT ![n].outcome = "returned"]
  /\ UNCHANGED <<disk, _diff_results, analysis_store>>
  /\ UNCHANGED graph_state

\* navigator.checkout_to_temp(ref) up to its first await: the repository is
\* opened if it was not, the directory is made and tracked, clone_from is
\* handed to the executor
checkout_to_temp(n, ref) ==
  /\ navigator[n].made
  /\ task[n].at = "idle"
  /\ Calls < MaxCheckouts
  /\ IF ~navigator[n].repo /\ OpenRaises(disk)
     THEN /\ task' = [task EXCEPT ![n].outcome = "raised",
                                  ![n].calls = @ + 1]
          /\ UNCHANGED <<navigator, disk>>
     ELSE \E temp_dir \in mkdtemp(disk.temps) :
            LET tracked == Track(navigator[n], disk, n, temp_dir)
            IN /\ navigator' = [navigator EXCEPT ![n] = tracked.navigator]
               /\ disk' = tracked.disk
               /\ task' = [task EXCEPT
                    ![n] = [@ EXCEPT !.at = "clone_from",
                                     !.kind = "checkout_to_temp",
                                     !.ref = ref, !.temp_dir = temp_dir,
                                     !.outcome = "", !.calls = @ + 1]]
  /\ UNCHANGED <<_diff_results, analysis_store>>
  /\ UNCHANGED graph_state

\* clone_from returns to checkout_to_temp: the checkout is handed to the
\* executor, or the except branch runs and the error is raised
clone_from_returns(n, ok) ==
  /\ task[n].kind = "checkout_to_temp" /\ task[n].at = "clone_from"
  /\ ok => Cloneable(disk)
  /\ IF ok
     THEN /\ disk' = CloneFrom(disk, n, task[n].temp_dir)
          /\ task' = [task EXCEPT ![n].at = "checkout"]
          /\ UNCHANGED navigator
     ELSE LET left == Abandon(navigator[n], disk, task[n].temp_dir)
          IN /\ navigator' = [navigator EXCEPT ![n] = left.navigator]
             /\ disk' = left.disk
             /\ task' = [task EXCEPT ![n].at = "idle",
                                     ![n].outcome = "raised"]
  /\ UNCHANGED <<_diff_results, analysis_store>>
  /\ UNCHANGED graph_state

\* temp_repo.git.checkout(ref) returns to checkout_to_temp: the directory is
\* returned, or (a ref the repository has not) the except branch runs and the
\* error is raised
checkout_returns(n) ==
  /\ task[n].kind = "checkout_to_temp" /\ task[n].at = "checkout"
  /\ IF task[n].ref \in RepoRefs
     THEN /\ disk' = Checkout(disk, n, task[n].temp_dir, task[n].ref)
          /\ task' = [task EXCEPT ![n].at = "idle",
                                  ![n].outcome = "returned"]
          /\ UNCHANGED navigator
     ELSE LET left == Abandon(navigator[n], disk, task[n].temp_dir)
          IN /\ navigator' = [navigator EXCEPT ![n] = left.navigator]
             /\ disk' = left.disk
             /\ task' = [task EXCEPT ![n].at = "idle",
                                     ![n].outcome = "raised"]
  /\ UNCHANGED <<_diff_results, analysis_store>>
  /\ UNCHANGED graph_state

\* navigator.close(), called as the routes call it: when no call of the
\* navigator is awaiting the executor
close(n) ==
  /\ navigator[n].made
  /\ task[n].at = "idle"
  /\ task[n].closes < MaxCloses
  /\ LET closed == Close(navigator[n], disk)
     IN /\ navigator' = [navigator EXCEPT ![n] = closed.navigator]
        /\ disk' = closed.disk
  /\ task' = [task EXCEPT ![n].outcome = "closed", ![n].closes = @ + 1]
  /\ UNCHANGED <<_diff_results, analysis_store>>
  /\ UNCHANGED graph_state

\* an exception reaches the end of the route of request r, whose navigator
\* and directories are then nav and dsk: _run_diff stores the failed record
\* (list_commits lets the exception through), and the finally block runs
Raise(r, cause, nav, dsk) ==
  LET end == Finally(nav, dsk)
  IN /\ _diff_results' =
          IF task[r].kind = "diff"
          THEN [_diff_results EXCEPT ![r] = Failed] ELSE _diff_results
     /\ navigator' = [navigator EXCEPT ![r] = end.navigator]
     /\ disk' = end.disk
     /\ task' = [task EXCEPT ![r].at = "finished", ![r].outcome = cause,
                             ![r].ref = "", ![r].temp_dir = 0]

\* POST /diff/create: the record is stored and _run_diff is scheduled
create_diff(r, base_ref, target_ref) ==
  /\ task[r].at = "idle" /\ task[r].kind = ""
  /\ _diff_results' = [_diff_results EXCEPT ![r] = Processing]
  /\ task' = [task EXCEPT ![r].kind = "diff", ![r].at = "scheduled",
                          ![r].base_ref = base_ref,
                          ![r].target_ref = target_ref]
  /\ UNCHANGED <<navigator, disk, analysis_store>>
  /\ UNCHANGED graph_state

\* _run_diff up to its first await, inside repo_analyzer.clone: the folder of
\* the URL is removed if it exists, and the clone is handed to the executor
_run_diff(r) ==
  /\ task[r].kind = "diff" /\ task[r].at = "scheduled"
  /\ disk' = CleanUpExisting(disk)
  /\ task' = [task EXCEPT ![r].at = "clone"]
  /\ UNCHANGED <<navigator, _diff_results, analysis_store>>
  /\ UNCHANGED graph_state

\* POST /diff/commits up to its first await, inside repo_analyzer.clone
list_commits(r) ==
  /\ task[r].at = "idle" /\ task[r].kind = ""
  /\ disk' = CleanUpExisting(disk)
  /\ task' = [task EXCEPT ![r].kind = "commits", ![r].at = "clone"]
  /\ UNCHANGED <<navigator, _diff_results, analysis_store>>
  /\ UNCHANGED graph_state

\* Repo.clone_from(url, to_path) starts in the executor: git refuses a
\* folder that is there (and not empty), the route then ending with the
\* error; otherwise it makes the folder and begins to fill it
clone_from_starts(r) ==
  /\ task[r].at = "clone"
  /\ IF disk.repo.exists
     THEN Raise(r, "clone", navigator[r], disk)
     ELSE /\ disk' = [disk EXCEPT !.repo = PartialRepoDir(r)]
          /\ task' = [task EXCEPT ![r].at = "cloning"]
          /\ UNCHANGED <<navigator, _diff_results>>
  /\ UNCHANGED analysis_store
  /\ UNCHANGED graph_state

\* Repo.clone_from returns to the route.  It has failed if the folder it was
\* filling has been removed meanwhile, and it may fail by itself.
\* list_commits then opens the navigator, lists and returns through its
\* finally block; _run_diff opens the navigator and goes on to the first
\* await of checkout_to_temp(base_ref).
clone_from_returns_to_route(r, ok) ==
  /\ task[r].at = "cloning"
  /\ ok => disk.repo = PartialRepoDir(r)
  /\ IF ~ok
     THEN Raise(r, "clone", navigator[r], disk)
     ELSE LET cloned == [disk EXCEPT !.repo = ClonedRepoDir(r)]
              opened == [GitHistoryNavigator EXCEPT !.repo = TRUE]
          IN IF task[r].kind = "commits"
             THEN Raise(r, "returned", opened, cloned)
             ELSE \E temp_dir \in mkdtemp(cloned.temps) :
                    LET tracked == Track(opened, cloned, r, temp_dir)
                    IN /\ navigator' =
                            [navigator EXCEPT ![r] = tracked.navigator]
                       /\ disk' = tracked.disk
                       /\ task' = [task EXCEPT
                            ![r].at = "base_clone_from",
                            ![r].ref = task[r].base_ref,
                            ![r].temp_dir = temp_dir]
                       /\ UNCHANGED _diff_results
  /\ UNCHANGED analysis_store
  /\ UNCHANGED graph_state

\* git.Repo.clone_from(repo_path, temp_dir) returns to checkout_to_temp, called
\* by build_akg_for_ref for _run_diff: the checkout is handed to the executor,
\* or the except branch runs and the error ends _run_diff
temp_clone_returns(r, ok) ==
  /\ task[r].at \in {"base_clone_from", "target_clone_from"}
  /\ ok => Cloneable(disk)
  /\ IF ok
     THEN /\ disk' = CloneFrom(disk, r, task[r].temp_dir)
          /\ task' = [task EXCEPT ![r].at =
               IF @ = "base_clone_from" THEN "base_checkout"
               ELSE "target_checkout"]
          /\ UNCHANGED <<navigator, _diff_results>>
     ELSE LET left == Abandon(navigator[r], disk, task[r].temp_dir)
          IN Raise(r, "clone_from", left.navigator, left.disk)
  /\ UNCHANGED analysis_store
  /\ UNCHANGED graph_state

\* temp_repo.git.checkout(ref) returns to checkout_to_temp, for _run_diff.  A
\* ref the repository has not: the except branch runs and the error ends
\* _run_diff.  Otherwise build_akg_for_ref assembles the graph (built: it
\* does not raise); after the base graph _run_diff goes on to the first
\* await of checkout_to_temp(target_ref); after the target graph it compares
\* (compared: compare_akgs does not raise), reads the changed files from
\* the repository, stores the completed record and runs its finally block.
temp_checkout_returns(r, built, compared) ==
  /\ task[r].at \in {"base_checkout", "target_checkout"}
  /\ IF task[r].ref \notin RepoRefs
     THEN LET left == Abandon(navigator[r], disk, task[r].temp_dir)
          IN Raise(r, "checkout", left.navigator, left.disk)
     ELSE LET checked == Checkout(disk, r, task[r].temp_dir, task[r].ref)
          IN IF ~built
             THEN Raise(r, "assembly", navigator[r], checked)
             ELSE IF task[r].at = "base_checkout"
             THEN \E temp_dir \in mkdtemp(checked.temps) :
                    LET tracked == Track(navigator[r], checked, r, temp_dir)
                    IN /\ navigator' =
                            [navigator EXCEPT ![r] = tracked.navigator]
                       /\ disk' = tracked.disk
                       /\ task' = [task EXCEPT
                            ![r].at = "target_clone_from",
                            ![r].ref = task[r].target_ref,
                            ![r].temp_dir = temp_dir]
                       /\ UNCHANGED _diff_results
             ELSE IF ~compared
             THEN Raise(r, "comparison", navigator[r], checked)
             ELSE IF ~Cloneable(checked)
             THEN Raise(r, "changed_files", navigator[r], checked)
             ELSE LET end == Finally(navigator[r], checked)
                  IN /\ _diff_results' =
                          [_diff_results EXCEPT ![r] = Completed]
                     /\ navigator' =
                          [navigator EXCEPT ![r] = end.navigator]
                     /\ disk' = end.disk
                     /\ task' = [task EXCEPT ![r].at = "finished",
                                             ![r].outcome = "completed",
                                             ![r].ref = "",
                                             ![r].temp_dir = 0]
  /\ UNCHANGED analysis_store
  /\ UNCHANGED graph_state

\* seq[:n]
Prefix(seq, n) == SubSeq(seq, 1, Min(Len(seq), n))

\* the node changes a diagram shows, and the characters of a name it shows
MermaidLimit == 30

\* the divisor of hash(change.node_id) % 10000
HashModulus == 10000

\* The values hash(id) % 10000 of one process, one for each id of a rendered
\* change.  hash() of a str depends on the hash seed of the process, so any
\* assignment of values to the ids is one the program can compute.
HashFunctions(ids) == [ids -> 0..Min(MaxHash, HashModulus - 1)]

\* The diagram of BlueprintDiff.to_mermaid_diff: the node lines in order
\* (identifier, marker and shown name) and one class line for each non-empty
\* list of identifiers.
MermaidOf(d, hash) ==
  LET changes == Prefix(d.node_changes, MermaidLimit)
      Marker(t) == IF t = ADDED THEN "+" ELSE IF t = REMOVED THEN "-" ELSE "~"
      node_id(change) == <<"n_", hash[change.node_id] % HashModulus>>
      safe_name(change) ==
        Prefix(ReplaceChar(change.node_name, "\"", <<"'">>), MermaidLimit)
      Listed(t) ==
        SelectSeq([i \in DOMAIN changes |->
                     [node_id |-> node_id(changes[i]),
                      change_type |-> changes[i].change_type]],
                  LAMBDA c : c.change_type = t)
      Ids_(t) == [i \in DOMAIN Listed(t) |-> Listed(t)[i].node_id]
      ClassLine(t) ==
        IF Ids_(t) # <<>> THEN <<[ids |-> Ids_(t), class |-> t]>> ELSE <<>>
  IN [nodes |-> [i \in DOMAIN changes |->
                   [node_id |-> node_id(changes[i]),
                    marker |-> Marker(changes[i].change_type),
                    safe_name |-> safe_name(changes[i])]],
      classes |-> ClassLine(ADDED) \o ClassLine(REMOVED) \o ClassLine(MODIFIED)]

\* diff.to_mermaid_diff() on the result of the comparison, stored with the
\* record of the request as _run_diff does
to_mermaid_diff(hash) ==
  /\ pc = "done"
  /\ pc' = "rendered"
  /\ _diff_results' =
       [_diff_results EXCEPT ![1] =
          [status |-> "completed", result |-> "diff", error |-> "None",
           mermaid_diff |-> MermaidOf(diff, hash)]]
  /\ UNCHANGED <<akg, diff, builder, navigator, disk, task, analysis_store>>

\* the record start_analysis stores: status, the stages of the progress
\* updates appended so far, and the error
Queued == [status |-> "queued", progress |-> <<>>, error |-> "None"]

\* The stages run_full_analysis yields after the awaited work of a stage has
\* returned, up to its next await; building_akg has no await, its work
\* (parse_directory, build_akg) is done between two yields.
YieldedAfter(stage) ==
  IF stage = "cloning" THEN <<"parsing">>
  ELSE IF stage = "parsing" THEN <<"building_akg", "architect_analysis">>
  ELSE IF stage = "architect_analysis"
  THEN <<"architect_complete", "runtime_analysis">>
  ELSE IF stage = "runtime_analysis"
  THEN <<"runtime_complete", "documentation">>
  ELSE <<"documentation_complete", "completed">>

\* the stages at which run_full_analysis awaits
AwaitingStages ==
  {"cloning", "parsing", "architect_analysis", "runtime_analysis",
   "documentation"}

\* the loop body of run_analysis for the progress updates yielded in one
\* step: each is appended and its stage becomes the status
Consume(record, yielded) ==
  [record EXCEPT !.progress = @ \o yielded,
                 !.status = yielded[Len(yielded)]]

\* run_analysis after its loop: the generator has ended
AfterLoop(record) == [record EXCEPT !.status = "completed"]

\* POST /analyze: the record is stored and run_analysis is scheduled
start_analysis(r) ==
  /\ task[r].at = "idle" /\ task[r].kind = ""
  /\ analysis_store' = [analysis_store EXCEPT ![r] = Queued]
  /\ task' = [task EXCEPT ![r].kind = "analysis", ![r].at = "scheduled"]
  /\ UNCHANGED <<navigator, disk, _diff_results>>
  /\ UNCHANGED graph_state

\* run_analysis up to its first await: status "running", AgentOrchestrator()
\* (which may raise, the except branch then storing the error), then
\* run_full_analysis up to the await inside repo_analyzer.clone, which has
\* yielded "cloning" and removed the folder of the URL if it was there
run_analysis(r, constructed) ==
  /\ task[r].kind = "analysis" /\ task[r].at = "scheduled"
  /\ IF ~constructed
     THEN /\ analysis_store' =
               [analysis_store EXCEPT ![r].status = "failed",
                                      ![r].error = "str(e)"]
          /\ task' = [task EXCEPT ![r].at = "finished",
                                  ![r].outcome = "raised"]
          /\ UNCHANGED disk
     ELSE /\ analysis_store' =
               [analysis_store EXCEPT ![r] =
                  Consume([@ EXCEPT !.status = "running"], <<"cloning">>)]
          /\ task' = [task EXCEPT ![r].at = "cloning"]
          /\ disk' = CleanUpExisting(disk)
  /\ UNCHANGED <<navigator, _diff_results>>
  /\ UNCHANGED graph_state

\* The awaited work of a stage returns to run_full_analysis.  If it raised
\* (~ok), or parse_directory or build_akg raises after "building_akg" was
\* yielded (~built), the except branch yields "failed" and the generator ends
\* through its finally block; otherwise the next stages are yielded up to the
\* next await, or up to "completed" and the end of the generator.  run_analysis
\* consumes each update, and sets the status after its loop when the
\* generator has ended.
run_full_analysis_resumes(r, ok, built) ==
  /\ task[r].kind = "analysis" /\ task[r].at \in AwaitingStages
  /\ LET stage == task[r].at
         after == YieldedAfter(stage)
         yielded == IF ~ok THEN <<"failed">>
                    ELSE IF stage = "parsing" /\ ~built
                    THEN <<"building_akg", "failed">>
                    ELSE after
         last == yielded[Len(yielded)]
         ended == last \in {"failed", "completed"}
         consumed == Consume(analysis_store[r], yielded)
         cloned == IF stage = "cloning" /\ ok
                   THEN [disk EXCEPT !.repo = ClonedRepoDir(r)] ELSE disk
     IN /\ analysis_store' =
             [analysis_store EXCEPT ![r] =
                IF ended THEN AfterLoop(consumed) ELSE consumed]
        /\ disk' = IF ended THEN cleanup(cloned) ELSE cloned
        /\ task' = [task EXCEPT
                      ![r].at = IF ended THEN "finished" ELSE last,
                      ![r].outcome = IF ended THEN last ELSE @]
  /\ UNCHANGED <<navigator, _diff_results>>
  /\ UNCHANGED graph_state

\* two empty graphs and two new builders, nothing compared yet
InitGraphs ==
  /\ akg = [side \in Sides |-> EmptyGraph]
  /\ diff = NoDiff
  /\ pc = "building"
  /\ builder = [side \in Sides |-> EmptyBuilder]

\* the web service before any request: no navigator, no directory, no record
InitWeb ==
  /\ navigator = [n \in Ids |-> NoNavigator]
  /\ disk = EmptyDisk
  /\ task = [n \in Ids |-> IdleTask]
  /\ _diff_results = [n \in Ids |-> NoRecord]
  /\ analysis_store = [n \in Ids |-> NoRecord]

Init == InitGraphs /\ InitWeb

\* two navigators made over one cloned repository, none of them open
NavInit ==
  /\ InitGraphs
  /\ navigator = [n \in Ids |-> GitHistoryNavigator]
  /\ disk = [EmptyDisk EXCEPT !.repo = ClonedRepoDir(0)]
  /\ task = [n \in Ids |-> IdleTask]
  /\ _diff_results = [n \in Ids |-> NoRecord]
  /\ analysis_store = [n \in Ids |-> NoRecord]

(***************************************************************************)
(* The inputs.                                                             *)
(***************************************************************************)
\* node ids
API1 == <<"a", "p", "i", "1">>

API2 == <<"a", "p", "i", "2">>

SVC1 == <<"s", "v", "c", "1">>

HLP1 == <<"h", "l", "p", "1">>

UTL1 == <<"u", "t", "l", "1">>

HANDLER1 == <<"h", "a", "n", "d", "l", "e", "r", "1">>

HANDLER2 == <<"h", "a", "n", "d", "l", "e", "r", "2">>

HANDLER3 == <<"h", "a", "n", "d", "l", "e", "r", "3">>

\* node names
APIService == <<"A", "P", "I", "S", "e", "r", "v", "i", "c", "e">>

UserService == <<"U", "s", "e", "r", "S", "e", "r", "v", "i", "c", "e">>

Helper == <<"H", "e", "l", "p", "e", "r">>

OrderHandler == <<"O", "r", "d", "e", "r", "H", "a", "n", "d", "l", "e", "r">>

\* file paths
ApiPath == <<"a", "p", "i", "/", "u", ".", "p", "y">>

CorePath == <<"c", "o", "r", "e", "/", "u", ".", "p", "y">>

RoutePath == <<"r", "o", "u", "t", "e", "/", "o", ".", "p", "y">>

\* Nodes of Spec.  api1: one class seen at several places and sizes; svc1: a
\* service class, under another name, with and without a line range; utl1: a
\* function named like a service; hlp1: a function whose path alone names an
\* API surface.
NodeCatalogue ==
  { AKGNode(API1, "class", APIService, ApiPath, <<10, 50>>),
    AKGNode(API1, "class", APIService, ApiPath, <<10, 80>>),
    AKGNode(API1, "class", APIService, ApiPath, <<20, 60>>),
    AKGNode(API1, "class", APIService, CorePath, <<10, 50>>),
    AKGNode(API1, "interface", APIService, ApiPath, <<10, 50>>),
    AKGNode(SVC1, "class", UserService, None, None),
    AKGNode(UTL1, "function", UserService, None, None),
    AKGNode(SVC1, "class", Helper, None, None),
    AKGNode(SVC1, "class", UserService, None, <<1, 5>>),
    AKGNode(HLP1, "function", Helper, RoutePath, None) }

\* Edges of Spec: to an API node, the same pair under another relation, to a
\* handler that no node declares, to a plain node.
EdgeCatalogue ==
  { AKGEdge(SVC1, API1, "uses"),
    AKGEdge(SVC1, API1, "calls"),
    AKGEdge(SVC1, HANDLER1, "calls"),
    AKGEdge(API1, SVC1, "uses") }

\* Nodes of RiskSpec: API-surface nodes only
RiskNodeCatalogue ==
  { AKGNode(API1, "class", APIService, ApiPath, <<10, 50>>),
    AKGNode(HANDLER1, "class", OrderHandler, None, None),
    AKGNode(HANDLER2, "class", OrderHandler, None, None) }

\* Edges of RiskSpec
RiskEdgeCatalogue ==
  { AKGEdge(API1, HANDLER1, "uses"),
    AKGEdge(API1, HANDLER2, "uses"),
    AKGEdge(API1, HANDLER3, "uses"),
    AKGEdge(API1, API2, "uses") }

\* components (module paths) and key entities (class names) are numbered
Components == 1..MaxComponents

\* the list [lo, lo+1, ..., hi]
Interval(lo, hi) == [i \in 1..(hi - lo + 1) |-> lo + i - 1]

\* component lists and key-entity lists of LayerSpec: empty, short, and long
\* enough for the [:10] slices to cut
ComponentLists ==
  { Interval(1, 0), Interval(1, 1), Interval(1, 2), Interval(2, 3),
    Interval(1, MaxComponents), Interval(2, MaxComponents) }

LayerNames == {"Presentation", "Business"}

ContextNames == {"Users", "Orders"}

(***************************************************************************)
(* The specifications.                                                     *)
(***************************************************************************)
\* graphs of nodes and edges
Next ==
  \/ \E side \in Sides, node \in NodeCatalogue : add_node(side, node, MaxOps)
  \/ \E side \in Sides, edge \in EdgeCatalogue : add_edge(side, edge, MaxOps)
  \/ compare_akgs

Spec == Init /\ [][Next]_vars

\* graphs of API-surface nodes and edges, large enough for every risk level
RiskNext ==
  \/ \E side \in Sides, node \in RiskNodeCatalogue :
       add_node(side, node, MaxRiskOps)
  \/ \E side \in Sides, edge \in RiskEdgeCatalogue :
       add_edge(side, edge, MaxRiskOps)
  \/ compare_akgs

RiskSpec == Init /\ [][RiskNext]_vars

\* graphs of layers and bounded contexts
LayerNext ==
  \/ \E side \in Sides, name \in LayerNames, components \in ComponentLists :
       add_layer(side, ArchitecturalLayer(name, components), MaxLayerOps)
  \/ \E side \in Sides, name \in ContextNames, entities \in ComponentLists :
       add_bounded_context(side, BoundedContext(name, entities), MaxLayerOps)
  \/ compare_akgs

LayerSpec == Init /\ [][LayerNext]_vars

\* one graph assembled from nodes and edges, ids left empty included
NoId == <<>>

GraphNodeCatalogue ==
  { AKGNode(SVC1, "class", UserService, None, None),
    AKGNode(API1, "class", APIService, ApiPath, <<10, 50>>),
    AKGNode(NoId, "class", Helper, None, None),
    AKGNode(NoId, "function", Helper, None, None) }

GraphEdgeCatalogue ==
  { AKGEdge(SVC1, API1, "uses"),
    AKGEdge(SVC1, HANDLER1, "calls"),
    AKGEdge(API1, SVC1, "uses"),
    AKGEdge(HANDLER2, SVC1, "calls"),
    AKGEdge(SVC1, NoId, "uses"),
    AKGEdge(NoId, SVC1, "uses") }

GraphNext ==
  \/ \E node \in GraphNodeCatalogue : add_node("base", node, MaxGraphOps)
  \/ \E edge \in GraphEdgeCatalogue : add_edge("base", edge, MaxGraphOps)

GraphSpec == Init /\ [][GraphNext]_vars

\* parsed files given to two builders: two classes of one name in a file, an
\* import that two paths can answer, a file without classes that imports one
\* with classes, one class name in two files, an import of nothing known
ClassA == <<"A">>

ClassB == <<"B">>

FileCatalogue ==
  { ParsedFile(<<"a", "/", "m", ".", "p", "y">>,
               << ParsedSymbol(ClassA, "class", 1, 5, None),
                  ParsedSymbol(ClassA, "class", 7, 9, None) >>,
               << <<"n">> >>),
    ParsedFile(<<"a", "/", "n", ".", "p", "y">>,
               << ParsedSymbol(ClassB, "class", 1, 3, None) >>,
               << <<"o", "s">>, <<"n">> >>),
    ParsedFile(<<"b", "/", "n", ".", "p", "y">>,
               << ParsedSymbol(<<"f">>, "function", 1, 2, None) >>,
               << >>),
    ParsedFile(<<"b", "/", "k", ".", "p", "y">>,
               << ParsedSymbol(ClassB, "class", 2, 4, None),
                  ParsedSymbol(<<"I">>, "interface", 5, 6, <<"i", "n", "t", "e", "r", "f", "a", "c", "e", " ", "I">>) >>,
               << <<"a", ".", "n">>, <<"n">> >>),
    ParsedFile(<<"b", "/", "q", ".", "p", "y">>,
               << >>,
               << <<"k">> >>) }

BuildNext ==
  \/ \E side \in Sides, parsed \in FileCatalogue :
       parse_directory(side, parsed, MaxFiles)
  \/ \E side \in Sides : build_akg(side)
  \/ (\A side \in Sides : builder[side].built = "yes") /\ compare_akgs

BuildSpec == Init /\ [][BuildNext]_vars

\* a parsed file that only has a path
PathOnly(path) == ParsedFile(path, <<>>, <<>>)

\* paths for the layers: keywords of two layers in one path, of each layer
\* alone, in upper case, and of no layer
LayerFileCatalogue ==
  { PathOnly(<<"a", "p", "i", "/", "U", "s", "e", "r", "S", "e", "r", "v", "i", "c", "e", ".", "p", "y">>),
    PathOnly(<<"c", "o", "r", "e", "/", "m", "o", "d", "e", "l", ".", "p", "y">>),
    PathOnly(<<"x", "/", "s", "t", "o", "r", "e", ".", "p", "y">>),
    PathOnly(<<"x", "/", "h", "e", "l", "p", "e", "r", ".", "p", "y">>),
    PathOnly(<<"x", "/", "m", "a", "i", "n", ".", "p", "y">>),
    PathOnly(<<"V", "i", "e", "w", "s", "/", "M", "a", "i", "n", ".", "p", "y">>),
    PathOnly(<<"x", "/", "D", "A", "O", ".", "p", "y">>),
    PathOnly(<<"a", "/", "g", "u", "i", "d", "e", ".", "p", "y">>) }

DetectNext ==
  \/ \E parsed \in LayerFileCatalogue :
       parse_directory("base", parsed, MaxDetectFiles)
  \/ build_akg("base")

DetectSpec == Init /\ [][DetectNext]_vars

\* a parsed file with one class
OneClass(path, name, imports) ==
  ParsedFile(path, <<ParsedSymbol(name, "class", 1, 2, None)>>, imports)

\* files for the imports: a relative import with two dots and with one, an
\* import that is a stem, one that only ends with a stem, a dotted one, one
\* of nothing known
ResolveFileCatalogue ==
  { OneClass(<<"a", "/", "m", ".", "p", "y">>, <<"M">>,
             << <<".", ".", "p">>, <<".", "p">>, <<"n">>, <<"z", "z">>, <<"p", "a", "t", "h", "l", "i", "b">>, <<"a", ".", "n">> >>),
    OneClass(<<"b", "/", "n", ".", "p", "y">>, ClassB, << <<"a", ".", "n">> >>),
    OneClass(<<"a", "/", "n", ".", "p", "y">>, ClassA, << >>),
    OneClass(<<"a", "/", "p", "/", "x", ".", "p", "y">>, <<"X">>, << >>),
    OneClass(<<"x", "/", "l", "i", "b", ".", "p", "y">>, <<"L">>, << >>) }

ResolveNext ==
  \/ \E parsed \in ResolveFileCatalogue :
       parse_directory("base", parsed, MaxDetectFiles)
  \/ build_akg("base")

ResolveSpec == Init /\ [][ResolveNext]_vars

\* files for the bounded contexts: under no wrapper, under one, under two,
\* next to a wrapper, at the top, and two files of one context
ContextFileCatalogue ==
  { OneClass(<<"o", "r", "d", "e", "r", "s", "/", "o", ".", "p", "y">>, <<"O">>, << >>),
    OneClass(<<"o", "r", "d", "e", "r", "s", "/", "s", "u", "b", "/", "p", ".", "p", "y">>, <<"P">>, << >>),
    OneClass(<<"s", "r", "c", "/", "u", "s", "e", "r", "s", "/", "u", ".", "p", "y">>, <<"U">>, << >>),
    OneClass(<<"s", "r", "c", "/", "a", "p", "p", "/", "x", "/", "y", ".", "p", "y">>, <<"Y">>, << >>),
    OneClass(<<"s", "r", "c", "/", "m", "a", "i", "n", ".", "p", "y">>, <<"S">>, << >>),
    OneClass(<<"l", "i", "b", "/", "z", ".", "p", "y">>, <<"Z">>, << >>),
    OneClass(<<"m", "a", "i", "n", ".", "p", "y">>, <<"T">>, << >>) }

ContextNext ==
  \/ \E parsed \in ContextFileCatalogue :
       parse_directory("base", parsed, MaxDetectFiles)
  \/ build_akg("base")

ContextSpec == Init /\ [][ContextNext]_vars

\* files of which one cannot be read or parsed: a/n.py, which a/m.py imports
ParseFileCatalogue ==
  { OneClass(<<"a", "/", "m", ".", "p", "y">>, <<"M">>, << <<"n">> >>),
    OneClass(<<"a", "/", "k", ".", "p", "y">>, <<"K">>, <<>>),
    OneClass(<<"a", "/", "n", ".", "p", "y">>, <<"N">>, <<>>),
    UnreadableFile(<<"a", "/", "n", ".", "p", "y">>) }

\* the files whose parse raises
RaisingFiles == { <<"a", "/", "n", ".", "p", "y">>, <<"a", "/", "r", ".", "p", "y">> }

\* ParseSpec: one builder parses up to MaxDetectFiles files, some of which
\* fail (the parser raises, or returns a result that carries an error), and
\* builds.
ParseNext ==
  \/ \E parsed \in ParseFileCatalogue :
       parse_directory("base", parsed, MaxDetectFiles)
  \/ \E file_path \in RaisingFiles :
       parse_directory_raises("base", file_path, MaxDetectFiles)
  \/ build_akg("base")

ParseSpec == Init /\ [][ParseNext]_vars

\* NavSpec: two navigators over one repository; each is opened, asked for
\* checkouts of existing and missing refs (one call at a time per navigator,
\* the two navigators' calls overlapping) and closed, in any order.
NavNext ==
  \/ \E n \in Ids : open(n)
  \/ \E n \in Ids, ref \in Refs : checkout_to_temp(n, ref)
  \/ \E n \in Ids, ok \in BOOLEAN : clone_from_returns(n, ok)
  \/ \E n \in Ids : checkout_returns(n)
  \/ \E n \in Ids : close(n)

NavSpec == NavInit /\ [][NavNext]_vars

\* RequestSpec: two requests for one repository URL, each a diff of two refs
\* or a commit listing, running in one event loop.
RequestNext ==
  \/ \E r \in Ids, base_ref, target_ref \in Refs :
       create_diff(r, base_ref, target_ref)
  \/ \E r \in Ids : _run_diff(r)
  \/ \E r \in Ids : list_commits(r)
  \/ \E r \in Ids : clone_from_starts(r)
  \/ \E r \in Ids, ok \in BOOLEAN : clone_from_returns_to_route(r, ok)
  \/ \E r \in Ids, ok \in BOOLEAN : temp_clone_returns(r, ok)
  \/ \E r \in Ids, built, compared \in BOOLEAN :
       temp_checkout_returns(r, built, compared)

RequestSpec == Init /\ [][RequestNext]_vars

\* Nodes of MermaidSpec: three ids, one of them under two types, one name
\* with a quotation mark.
MermaidNodeCatalogue ==
  { AKGNode(SVC1, "class", UserService, None, None),
    AKGNode(SVC1, "interface", UserService, None, None),
    AKGNode(UTL1, "function", <<"s", "a", "y", "\"", "h", "i", "\"">>,
            None, None),
    AKGNode(HLP1, "function", Helper, None, None) }

\* MermaidSpec: two graphs of a few nodes are compared and the diff rendered.
MermaidNext ==
  \/ \E side \in Sides, node \in MermaidNodeCatalogue :
       add_node(side, node, MaxMermaidOps)
  \/ compare_akgs
  \/ \E hash \in HashFunctions({c.node_id : c \in Range(diff.node_changes)}) :
       to_mermaid_diff(hash)

MermaidSpec == Init /\ [][MermaidNext]_vars

\* AnalysisSpec: two analyses are started and run in one event loop.
AnalysisNext ==
  \/ \E r \in Ids : start_analysis(r)
  \/ \E r \in Ids, constructed \in BOOLEAN : run_analysis(r, constructed)
  \/ \E r \in Ids, ok, built \in BOOLEAN :
       run_full_analysis_resumes(r, ok, built)

AnalysisSpec == Init /\ [][AnalysisNext]_vars

(***************************************************************************)
(* Properties of the comparison.                                           *)
(***************************************************************************)
Base == akg["base"]

Target == akg["target"]

Compared == pc = "done"

\* the positions of a list of changes that hold a change of type t
OfType(changes, t) == {i \in DOMAIN changes : changes[i].change_type = t}

\* C1: comparing a graph with itself gives no node change and no edge change
\* (total_changes = 0), risk level "low" and no breaking change.
C1_IdenticalGraphs ==
  (Compared /\ Base = Target) =>
    /\ OfType(diff.node_changes, ADDED) = {}
    /\ OfType(diff.node_changes, REMOVED) = {}
    /\ OfType(diff.node_changes, MODIFIED) = {}
    /\ diff.edge_changes = <<>>
    /\ total_changes(diff) = 0
    /\ diff.risk_level = "low"
    /\ diff.breaking_changes = <<>>

\* a graph with declared nodes (one of them without line range), an external
\* node and an edge has been compared with itself
C1_Witness ==
  /\ Compared
  /\ Base = Target
  /\ Base.edges # <<>>
  /\ \E k \in DOMAIN Base.nodes : Base.nodes[k].line_range = None
  /\ \E k \in DOMAIN Base.nodes : Base.nodes[k].line_range # None

\* C2: the ids reported ADDED are exactly the target ids that are not base
\* ids, the ids reported REMOVED exactly the base ids that are not target
\* ids, and each of them is reported once.
C2_AddedRemovedIds ==
  Compared =>
    LET added == OfType(diff.node_changes, ADDED)
        removed == OfType(diff.node_changes, REMOVED)
        only_target == (DOMAIN Target.nodes) \ (DOMAIN Base.nodes)
        only_base == (DOMAIN Base.nodes) \ (DOMAIN Target.nodes)
    IN /\ {diff.node_changes[i].node_id : i \in added} = only_target
       /\ Cardinality(added) = Cardinality(only_target)
       /\ {diff.node_changes[i].node_id : i \in removed} = only_base
       /\ Cardinality(removed) = Cardinality(only_base)

\* a comparison with added ids, removed ids and ids on both sides
C2_Witness ==
  /\ Compared
  /\ (DOMAIN Target.nodes) \ (DOMAIN Base.nodes) # {}
  /\ (DOMAIN Base.nodes) \ (DOMAIN Target.nodes) # {}
  /\ (DOMAIN Base.nodes) \cap (DOMAIN Target.nodes) # {}

\* the changes reported for node id k
ChangesOf(k) ==
  {i \in DOMAIN diff.node_changes : diff.node_changes[i].node_id = k}

\* C3: an id on both sides is reported MODIFIED (once) if the two nodes
\* differ in type, file path or line range, and is not reported at all if
\* they agree on the three.
C3_ModifiedIff ==
  Compared =>
    \A k \in (DOMAIN Base.nodes) \cap (DOMAIN Target.nodes) :
      LET b == Base.nodes[k]
          t == Target.nodes[k]
      IN IF b.type # t.type \/ b.file_path # t.file_path
            \/ b.line_range # t.line_range
         THEN /\ Cardinality(ChangesOf(k)) = 1
              /\ \A i \in ChangesOf(k) :
                   diff.node_changes[i].change_type = MODIFIED
         ELSE ChangesOf(k) = {}

\* one id whose two nodes differ in the type only, and one id whose two nodes
\* differ in the name only
C3_Witness ==
  /\ Compared
  /\ \E k \in (DOMAIN Base.nodes) \cap (DOMAIN Target.nodes) :
       /\ Base.nodes[k].type # Target.nodes[k].type
       /\ Base.nodes[k].file_path = Target.nodes[k].file_path
       /\ Base.nodes[k].line_range = Target.nodes[k].line_range
  /\ \E k \in (DOMAIN Base.nodes) \cap (DOMAIN Target.nodes) :
       /\ Base.nodes[k].name # Target.nodes[k].name
       /\ Base.nodes[k].type = Target.nodes[k].type
       /\ Base.nodes[k].file_path = Target.nodes[k].file_path
       /\ Base.nodes[k].line_range = Target.nodes[k].line_range

\* the (source, target, relation) triples of a list of edges or edge changes
Triples(s) == {<<s[i].source_id, s[i].target_id, s[i].relation>> : i \in DOMAIN s}

ApiSurfaceKeywords ==
  { <<"a", "p", "i">>,
    <<"i", "n", "t", "e", "r", "f", "a", "c", "e">>,
    <<"p", "u", "b", "l", "i", "c">>,
    <<"e", "x", "p", "o", "r", "t">>,
    <<"h", "a", "n", "d", "l", "e", "r">>,
    <<"c", "o", "n", "t", "r", "o", "l", "l", "e", "r">>,
    <<"e", "n", "d", "p", "o", "i", "n", "t">>,
    <<"r", "o", "u", "t", "e">>,
    <<"s", "c", "h", "e", "m", "a">> }

\* the keywords "api", "public", "export"
PublicApiKeywords ==
  { <<"a", "p", "i">>,
    <<"p", "u", "b", "l", "i", "c">>,
    <<"e", "x", "p", "o", "r", "t">> }

\* the lower-cased string s contains one of the keywords
HasKeyword(s, keywords) == \E kw \in keywords : Contains(Lower(s), kw)

\* the message of a removed node, and of a removed edge
NodeMessage(c) ==
  Text("Removed {a} '{b}' (potentially breaking)", <<c.node_type>>,
       c.node_name, 0)

EdgeMessage(c) == Text("Removed dependency to '{a}'", c.target_id, None, 0)

\* breaking_changes holds one message per REMOVED node change of impact
\* "high", one per REMOVED edge change whose target id has one of the
\* keywords, and nothing else
BreakingChangesAre(keywords) ==
  LET nodes == {i \in DOMAIN diff.node_changes :
                  /\ diff.node_changes[i].change_type = REMOVED
                  /\ diff.node_changes[i].impact = "high"}
      edges == {i \in DOMAIN diff.edge_changes :
                  /\ diff.edge_changes[i].change_type = REMOVED
                  /\ HasKeyword(diff.edge_changes[i].target_id, keywords)}
      expected == {NodeMessage(diff.node_changes[i]) : i \in nodes}
                    \cup {EdgeMessage(diff.edge_changes[i]) : i \in edges}
      Times(m) ==
        Cardinality({i \in nodes : NodeMessage(diff.node_changes[i]) = m})
          + Cardinality({i \in edges : EdgeMessage(diff.edge_changes[i]) = m})
  IN /\ Len(diff.breaking_changes) = Cardinality(nodes) + Cardinality(edges)
     /\ \A m \in expected \cup Range(diff.breaking_changes) :
          Cardinality({i \in DOMAIN diff.breaking_changes :
                         diff.breaking_changes[i] = m}) = Times(m)

HighImpactCount ==
  Cardinality({i \in DOMAIN diff.node_changes :
                 /\ diff.node_changes[i].impact = "high"
                 /\ diff.node_changes[i].change_type \in {REMOVED, MODIFIED}})

\* C6: risk_level is "critical" when there are more than 5 breaking changes,
\* else "high" when there are more than 2, else "medium" when more than 3
\* REMOVED or MODIFIED node changes have impact "high", else "low".
C6_RiskLevel ==
  Compared =>
    diff.risk_level =
      IF Len(diff.breaking_changes) > 5 THEN "critical"
      ELSE IF Len(diff.breaking_changes) > 2 THEN "high"
      ELSE IF HighImpactCount > 3 THEN "medium"
      ELSE "low"

\* at most 2 breaking changes and more than 3 high-impact changes: "medium"
C6_Witness ==
  /\ Compared
  /\ Len(diff.breaking_changes) <= 2
  /\ HighImpactCount > 3
  /\ diff.risk_level = "medium"

\* the other three levels, each at its threshold
C6_ReachCritical ==
  Compared /\ Len(diff.breaking_changes) = 6 /\ diff.risk_level = "critical"

C6_ReachHighAt5 ==
  Compared /\ Len(diff.breaking_changes) = 5 /\ diff.risk_level = "high"

C6_ReachHighAt3 ==
  Compared /\ Len(diff.breaking_changes) = 3 /\ diff.risk_level = "high"

C6_ReachLowAt2And3 ==
  /\ Compared
  /\ Len(diff.breaking_changes) = 2
  /\ HighImpactCount = 3
  /\ diff.risk_level = "low"

\* the node a change reports: the base node when REMOVED, else the target node
NodeOf(c) ==
  IF c.change_type = REMOVED THEN Base.nodes[c.node_id]
  ELSE Target.nodes[c.node_id]

\* the path of a node, "" when it has none
PathOf(node) == IF node.file_path = None THEN <<>> ELSE node.file_path

\* C7: the impact of a changed node is "high" if its lower-cased name or file
\* path contains an API-surface keyword; otherwise "medium" if it is a class
\* or interface whose name contains "service"; otherwise "low".
C7_Impact ==
  Compared =>
    \A i \in DOMAIN diff.node_changes :
      LET node == NodeOf(diff.node_changes[i])
      IN diff.node_changes[i].impact =
           IF \/ HasKeyword(node.name, ApiSurfaceKeywords)
              \/ HasKeyword(PathOf(node), ApiSurfaceKeywords)
           THEN "high"
           ELSE IF node.type \in {"class", "interface"}
                   /\ HasKeyword(node.name, {<<"s", "e", "r", "v", "i", "c", "e">>})
           THEN "medium"
           ELSE "low"

\* one diff reports a class that is both API and service (high), a function
\* whose path alone has a keyword (high), a service class (medium) and a
\* function named like a service (low)
C7_Witness ==
  /\ Compared
  /\ \E i \in DOMAIN diff.node_changes :
       LET node == NodeOf(diff.node_changes[i])
       IN /\ node.type = "class"
          /\ HasKeyword(node.name, {<<"s", "e", "r", "v", "i", "c", "e">>})
          /\ HasKeyword(node.name, ApiSurfaceKeywords)
          /\ diff.node_changes[i].impact = "high"
  /\ \E i \in DOMAIN diff.node_changes :
       LET node == NodeOf(diff.node_changes[i])
       IN /\ ~ HasKeyword(node.name, ApiSurfaceKeywords)
          /\ HasKeyword(PathOf(node), ApiSurfaceKeywords)
          /\ diff.node_changes[i].impact = "high"
  /\ \E i \in DOMAIN diff.node_changes : diff.node_changes[i].impact = "medium"
  /\ \E i \in DOMAIN diff.node_changes :
       /\ NodeOf(diff.node_changes[i]).type = "function"
       /\ HasKeyword(NodeOf(diff.node_changes[i]).name,
                     {<<"s", "e", "r", "v", "i", "c", "e">>})
       /\ diff.node_changes[i].impact = "low"

\* graph g has a layer named n; the components of the layers of that name
HasLayer(g, n) == \E i \in DOMAIN g.layers : g.layers[i].name = n

ComponentsOf(g, n) ==
  UNION {Range(g.layers[i].components) :
           i \in {k \in DOMAIN g.layers : g.layers[k].name = n}}

\* graph g has a context named n; the key entities of the contexts of that name
HasContext(g, n) ==
  \E i \in DOMAIN g.bounded_contexts : g.bounded_contexts[i].name = n

EntitiesOf(g, n) ==
  UNION {Range(g.bounded_contexts[i].key_entities) :
           i \in {k \in DOMAIN g.bounded_contexts :
                    g.bounded_contexts[k].name = n}}

\* the layer changes and the context changes of the diff for name n
LayerChangesOf(n) ==
  {i \in DOMAIN diff.layer_changes : diff.layer_changes[i].layer_name = n}

ContextChangesOf(n) ==
  {i \in DOMAIN diff.context_changes :
     diff.context_changes[i].context_name = n}

\* list is the set S, each element once
ListsExactly(list, S) == Range(list) = S /\ Len(list) = Cardinality(S)

\* list holds min(10, |S|) distinct elements of S
ListsUpToTen(list, S) ==
  /\ Range(list) \subseteq S
  /\ Len(list) = Min(10, Cardinality(S))
  /\ Cardinality(Range(list)) = Len(list)

C9_Claimed ==
  Compared =>
    \A n \in LayerNames :
      /\ HasLayer(Target, n) /\ ~ HasLayer(Base, n) =>
           \E i \in LayerChangesOf(n) :
             diff.layer_changes[i].change_type = ADDED
      /\ HasLayer(Base, n) /\ ~ HasLayer(Target, n) =>
           \E i \in LayerChangesOf(n) :
             diff.layer_changes[i].change_type = REMOVED

\* what holds of one-sided layers: one with components produces exactly one
\* change, of type ADDED or REMOVED by its side; one without produces none
C9_OneSidedLayer ==
  Compared =>
    \A n \in LayerNames :
      /\ HasLayer(Target, n) /\ ~ HasLayer(Base, n) =>
           IF ComponentsOf(Target, n) = {} THEN LayerChangesOf(n) = {}
           ELSE /\ Cardinality(LayerChangesOf(n)) = 1
                /\ \A i \in LayerChangesOf(n) :
                     diff.layer_changes[i].change_type = ADDED
      /\ HasLayer(Base, n) /\ ~ HasLayer(Target, n) =>
           IF ComponentsOf(Base, n) = {} THEN LayerChangesOf(n) = {}
           ELSE /\ Cardinality(LayerChangesOf(n)) = 1
                /\ \A i \in LayerChangesOf(n) :
                     diff.layer_changes[i].change_type = REMOVED

\* a compared pair where target alone has a layer, and it has no components
C9_Witness ==
  /\ Compared
  /\ \E n \in LayerNames :
       /\ HasLayer(Target, n) /\ ~ HasLayer(Base, n)
       /\ ComponentsOf(Target, n) = {}

\* the type of a context change for name n
ContextTypeOf(n) ==
  IF ~ HasContext(Base, n) THEN ADDED
  ELSE IF ~ HasContext(Target, n) THEN REMOVED
  ELSE MODIFIED

CountPart(template, n) == Text(template, None, None, n)

BreakingNote == CountPart(" {n} potential breaking change(s).",
                          Len(diff.breaking_changes))

LayerNote == CountPart(" Layer structure affected.", 0)

\* the summary counts the added, removed and modified components
SummaryCounts ==
  /\ added_count(diff) > 0 =>
       CountPart("{n} components added", added_count(diff))
         \in Range(diff.summary)
  /\ removed_count(diff) > 0 =>
       CountPart("{n} components removed", removed_count(diff))
         \in Range(diff.summary)
  /\ modified_count(diff) > 0 =>
       CountPart("{n} components modified", modified_count(diff))
         \in Range(diff.summary)

\* C11 as claimed: the summary counts the added, removed and modified
\* components, carries the breaking-change note whenever breaking_changes is
\* non-empty and the layer note whenever layer_changes is non-empty, for every
\* diff, including one whose only changes are edge or layer changes.
C11_Claimed ==
  Compared =>
    /\ SummaryCounts
    /\ diff.breaking_changes # <<>> => BreakingNote \in Range(diff.summary)
    /\ diff.layer_changes # <<>> => LayerNote \in Range(diff.summary)

\* what holds of the summary: the counts always, the two notes when some
\* node change is reported; with no node change the summary is the one
\* sentence "No architectural changes detected"
C11_SummaryOfNodeChanges ==
  Compared =>
    /\ SummaryCounts
    /\ IF diff.node_changes # <<>>
       THEN /\ diff.breaking_changes # <<>> =>
                 BreakingNote \in Range(diff.summary)
            /\ diff.layer_changes # <<>> => LayerNote \in Range(diff.summary)
       ELSE diff.summary =
              <<CountPart("No architectural changes detected", 0)>>

\* a diff with a breaking change and no node change
C11_Witness ==
  /\ Compared
  /\ diff.node_changes = <<>>
  /\ diff.breaking_changes # <<>>

\* a diff with a layer change and no node change
C11_LayerOnly ==
  /\ Compared
  /\ diff.node_changes = <<>>
  /\ diff.layer_changes # <<>>

\* C12: compare_akgs leaves the node maps, edge lists, layer lists and
\* bounded-context lists of base and target as they were, and raises no error,
\* for any two graphs, nodes without file path or line range included.
C12_PureAndTotal ==
  [][pc = "building" /\ pc' # "building" => akg' = akg /\ pc' = "done"]_vars

\* a compared pair with a node whose line range is None on one side only
C12_Witness ==
  /\ Compared
  /\ \E i \in DOMAIN diff.node_changes :
       /\ diff.node_changes[i].change_type = MODIFIED
       /\ diff.node_changes[i].old_line_range = None
       /\ diff.node_changes[i].new_line_range # None
  /\ \E id \in DOMAIN Base.nodes : Base.nodes[id].file_path = None

(***************************************************************************)
(* Properties of the graph.                                                *)
(***************************************************************************)
\* every edge of g has both endpoints among the nodes
EdgesTotal(g) ==
  \A i \in DOMAIN g.edges :
    /\ g.edges[i].source_id \in DOMAIN g.nodes
    /\ g.edges[i].target_id \in DOMAIN g.nodes

\* an add_edge without its source node changes nothing; one without its
\* target node adds an "external" node under the target id
AddEdgeOutcome(g, edge) ==
  /\ edge.source_id \notin DOMAIN g.nodes => GraphAddEdge(g, edge) = g
  /\ edge.source_id \in DOMAIN g.nodes /\ edge.target_id \notin DOMAIN g.nodes =>
       /\ edge.target_id \in DOMAIN GraphAddEdge(g, edge).nodes
       /\ GraphAddEdge(g, edge).nodes[edge.target_id].type = "external"

\* C13 as claimed: after any sequence of add_node and add_edge calls every
\* edge of the edge list has its source id and its target id as keys of the
\* node map; a rejected add_edge (source missing) leaves nodes and edges
\* unchanged, and an add_edge whose target is missing adds a node of type
\* "external" with that id.
C13_Claimed ==
  /\ EdgesTotal(Base)
  /\ \A edge \in GraphEdgeCatalogue : AddEdgeOutcome(Base, edge)

\* what holds: the same for every edge whose target id is not empty
C13_TotalForNamedTargets ==
  /\ \A i \in DOMAIN Base.edges :
       Base.edges[i].target_id # NoId =>
         /\ Base.edges[i].source_id \in DOMAIN Base.nodes
         /\ Base.edges[i].target_id \in DOMAIN Base.nodes
  /\ \A edge \in GraphEdgeCatalogue :
       edge.target_id # NoId => AddEdgeOutcome(Base, edge)

\* a graph holding an edge that was accepted with an empty target id
C13_Witness ==
  \E i \in DOMAIN Base.edges : Base.edges[i].target_id = NoId

\* a graph with an edge whose target was added as an "external" node, offered
\* an edge whose source is missing
C13_ExternalAndRejected ==
  /\ \E i \in DOMAIN Base.edges :
       /\ Base.edges[i].target_id \in DOMAIN Base.nodes
       /\ Base.nodes[Base.edges[i].target_id].type = "external"
  /\ \E edge \in GraphEdgeCatalogue : edge.source_id \notin DOMAIN Base.nodes

(***************************************************************************)
(* Properties of the builder.                                              *)
(***************************************************************************)
\* the builder of a side has returned a graph; its modules and their paths
Built(side) == builder[side].built = "yes"

ModulePaths(side) ==
  {builder[side].modules[i].path : i \in DOMAIN builder[side].modules}

\* the ordered pairs (M, N) of modules of a side such that an import of M
\* resolves to the known module N
ResolvedPairs(side) ==
  LET modules == builder[side].modules
  IN {pair \in ModulePaths(side) \X ModulePaths(side) :
        \E i \in DOMAIN ModuleAt(modules, pair[1]).imports :
          _resolve_import(modules, pair[1],
                          ModuleAt(modules, pair[1]).imports[i]) = pair[2]}

\* edge is the depends_on edge of the pair: its ends are ids under the two
\* paths, the first declared class of a module that has one
IsEdgeOfPair(side, edge, pair) ==
  LET End(id, path) ==
        LET module_classes == ModuleAt(builder[side].modules, path).classes
        IN /\ StartsWith(id, path \o <<":">>)
           /\ module_classes # <<>> => id = path \o <<":">> \o module_classes[1]
  IN /\ edge.relation = "depends_on"
     /\ End(edge.source_id, pair[1])
     /\ End(edge.target_id, pair[2])

\* the graph of a built side has exactly one depends_on edge per resolved pair
EdgesOfResolvedPairs(side) ==
  /\ Len(akg[side].edges) = Cardinality(ResolvedPairs(side))
  /\ \A pair \in ResolvedPairs(side) :
       Cardinality({i \in DOMAIN akg[side].edges :
                      IsEdgeOfPair(side, akg[side].edges[i], pair)}) = 1

\* C14 as claimed: for any set of parsed modules build_akg completes, and the
\* graph has exactly one depends_on edge for every ordered module pair (M, N)
\* such that an import of M resolves to known module N, whether or not M or N
\* declares a class, its ends being the first declared classes of the modules
\* that have one; imports that resolve to nothing add no edge and no error.
C14_Claimed ==
  \A side \in Sides :
    /\ builder[side].built # "error"
    /\ Built(side) => EdgesOfResolvedPairs(side)

\* what holds: a build that returns a graph gives it those edges, and a build
\* fails exactly when a module without classes has a resolved import
C14_EdgesWhenBuilt ==
  \A side \in Sides :
    /\ Built(side) => EdgesOfResolvedPairs(side)
    /\ builder[side].built = "error" =>
         \E pair \in ResolvedPairs(side) :
           ModuleAt(builder[side].modules, pair[1]).classes = <<>>
    /\ Built(side) =>
         \A pair \in ResolvedPairs(side) :
           ModuleAt(builder[side].modules, pair[1]).classes # <<>>

\* a build that raised, for a module without classes with a resolved import
C14_Witness ==
  \E side \in Sides :
    /\ builder[side].built = "error"
    /\ \E pair \in ResolvedPairs(side) :
         ModuleAt(builder[side].modules, pair[1]).classes = <<>>

\* a built graph with an edge to a module without classes and an import that
\* resolved to nothing
C14_BuiltWithEdges ==
  \E side \in Sides :
    /\ Built(side)
    /\ \E pair \in ResolvedPairs(side) :
         ModuleAt(builder[side].modules, pair[2]).classes = <<>>
    /\ \E i \in DOMAIN builder[side].modules :
         \E j \in DOMAIN builder[side].modules[i].imports :
           _resolve_import(builder[side].modules,
                           builder[side].modules[i].path,
                           builder[side].modules[i].imports[j]) = None

\* the class and interface symbols of the files a side parsed, as
\* <<file position, symbol position>>
NodeSymbols(side) ==
  UNION {{<<f, s>> : s \in {k \in DOMAIN builder[side].parsed_files[f].symbols :
                              builder[side].parsed_files[f].symbols[k].type
                                \in {"class", "interface"}}} :
           f \in DOMAIN builder[side].parsed_files}

SymbolAt(side, fs) == builder[side].parsed_files[fs[1]].symbols[fs[2]]

FileOf(side, fs) == builder[side].parsed_files[fs[1]].file_path

\* the nodes of a graph that are not "external" placeholders
DeclaredNodes(g) == {id \in DOMAIN g.nodes : g.nodes[id].type # "external"}

\* C15 as claimed: build_akg creates one distinct node per class or interface
\* symbol of the parsed files: the number of non-external nodes equals the
\* number of class/interface symbols, for every input, files in which two
\* such symbols share a name included.
C15_Claimed ==
  \A side \in Sides :
    Built(side) =>
      Cardinality(DeclaredNodes(akg[side])) = Cardinality(NodeSymbols(side))

\* what holds: one node per distinct (file, name) of those symbols
C15_NodePerFileAndName ==
  \A side \in Sides :
    Built(side) =>
      Cardinality(DeclaredNodes(akg[side])) =
        Cardinality({<<FileOf(side, fs), SymbolAt(side, fs).name>> :
                       fs \in NodeSymbols(side)})

\* a built graph of a file in which two class symbols share a name
C15_Witness ==
  \E side \in Sides :
    /\ Built(side)
    /\ \E fs \in NodeSymbols(side), gs \in NodeSymbols(side) :
         /\ fs # gs /\ fs[1] = gs[1]
         /\ SymbolAt(side, fs).name = SymbolAt(side, gs).name

\* the two builders parsed the same files, and both returned a graph
SameContent ==
  /\ Range(builder["base"].parsed_files) = Range(builder["target"].parsed_files)
  /\ Built("base") /\ Built("target")

\* C16 as claimed: two independent builds over identical source content yield
\* identical node-id sets, in whatever order the files are supplied, and the
\* diff of the two graphs reports no added and no removed node.
C16_Claimed ==
  SameContent =>
    /\ DOMAIN Base.nodes = DOMAIN Target.nodes
    /\ Compared =>
         \A i \in DOMAIN diff.node_changes :
           diff.node_changes[i].change_type \notin {ADDED, REMOVED}

\* what holds: the ids of the class and interface nodes are identical, and so
\* are all ids when the files were supplied in the same order
C16_DeclaredIdsAgree ==
  SameContent =>
    /\ DeclaredNodes(Base) = DeclaredNodes(Target)
    /\ builder["base"].parsed_files = builder["target"].parsed_files =>
         Base = Target

\* the same files supplied in two orders, built and compared, with an added
\* or removed node reported
C16_Witness ==
  /\ SameContent
  /\ builder["base"].parsed_files # builder["target"].parsed_files
  /\ Compared
  /\ \E i \in DOMAIN diff.node_changes :
       diff.node_changes[i].change_type \in {ADDED, REMOVED}

\* the evidence a graph holds for a node: an entry of the evidence map with
\* the node's file path and line range
EvidenceOfNode(g, id) ==
  {i \in DOMAIN g._evidence_map :
     /\ g._evidence_map[i].file_path = g.nodes[id].file_path
     /\ <<g._evidence_map[i].line_start, g._evidence_map[i].line_end>>
          = g.nodes[id].line_range}

\* C17 as claimed: every class/interface node of a graph assembled by
\* build_akg has Evidence attached whose file path and line range are those
\* of the node, with line_start >= 1 and line_end >= line_start; this holds
\* for every node, two same-named classes declared in different files included.
C17_Claimed ==
  \A side \in Sides :
    Built(side) =>
      \A id \in DeclaredNodes(akg[side]) :
        \E i \in EvidenceOfNode(akg[side], id) :
          /\ akg[side]._evidence_map[i].line_start >= 1
          /\ akg[side]._evidence_map[i].line_end
               >= akg[side]._evidence_map[i].line_start

\* what holds: the graph keeps one Evidence per symbol name, that of the last
\* class or interface of the name that was added; a node whose name no other
\* node has keeps its evidence
C17_EvidencePerName ==
  \A side \in Sides :
    Built(side) =>
      \A id \in DeclaredNodes(akg[side]) :
        /\ Cardinality({i \in DOMAIN akg[side]._evidence_map :
                          akg[side]._evidence_map[i].claim_id
                            = EvidenceId(akg[side].nodes[id].name)}) = 1
        /\ (\A other \in DeclaredNodes(akg[side]) :
              akg[side].nodes[other].name = akg[side].nodes[id].name
                => other = id)
             => EvidenceOfNode(akg[side], id) # {}

\* a built graph with two classes of one name from two files
C17_Witness ==
  \E side \in Sides :
    /\ Built(side)
    /\ \E id \in DeclaredNodes(akg[side]), other \in DeclaredNodes(akg[side]) :
         /\ id # other
         /\ akg[side].nodes[id].name = akg[side].nodes[other].name
         /\ akg[side].nodes[id].file_path # akg[side].nodes[other].file_path

\* the layers in their priority order
LayerPriority ==
  << <<"p", "r", "e", "s", "e", "n", "t", "a", "t", "i", "o", "n">>, <<"b", "u", "s", "i", "n", "e", "s", "s">>, <<"d", "a", "t", "a">>, <<"i", "n", "f", "r", "a", "s", "t", "r", "u", "c", "t", "u", "r", "e">> >>

\* the keywords of a layer
KeywordsOf(layer) ==
  Range(LAYER_PATTERNS[CHOOSE k \in DOMAIN LAYER_PATTERNS :
                         LAYER_PATTERNS[k].layer = layer].patterns)

\* the first layer, in priority order, one of whose keywords occurs in the
\* lower-cased path; "infrastructure" when no keyword occurs
ExpectedLayer(path) ==
  LET hits == {k \in DOMAIN LayerPriority :
                 HasKeyword(path, KeywordsOf(LayerPriority[k]))}
  IN IF hits = {} THEN <<"i", "n", "f", "r", "a", "s", "t", "r", "u", "c", "t", "u", "r", "e">>
     ELSE LayerPriority[CHOOSE k \in hits : \A m \in hits : k <= m]

\* the layers of a graph that hold a path, with repetitions
LayersHolding(g, path) ==
  {ic \in UNION {{<<i, c>> : c \in DOMAIN g.layers[i].components} :
                   i \in DOMAIN g.layers} :
     g.layers[ic[1]].components[ic[2]] = path}

\* C18: detect_layers gives every module exactly one layer of presentation,
\* business, data, infrastructure: the first, in that order, one of whose
\* keywords occurs in the lower-cased module path, and infrastructure when no
\* keyword occurs; the layer depends on the path alone.
C18_OneLayerPerModule ==
  /\ \A i \in DOMAIN builder["base"].modules :
       /\ detect_layers(builder["base"].modules)[i].path
            = builder["base"].modules[i].path
       /\ detect_layers(builder["base"].modules)[i].layer
            = ExpectedLayer(builder["base"].modules[i].path)
  /\ Built("base") =>
       \A path \in ModulePaths("base") :
         /\ Cardinality(LayersHolding(Base, path)) = 1
         /\ \A ic \in LayersHolding(Base, path) :
              Base.layers[ic[1]].name = Title(ExpectedLayer(path))

\* a built graph with a module whose path has keywords of two layers, one
\* whose keyword is in upper case and one without keyword
C18_Witness ==
  /\ Built("base")
  /\ \E path \in ModulePaths("base") :
       Cardinality({k \in DOMAIN LayerPriority :
                      HasKeyword(path, KeywordsOf(LayerPriority[k]))}) >= 2
  /\ \E path \in ModulePaths("base") :
       /\ path # Lower(path)
       /\ ExpectedLayer(path) # <<"i", "n", "f", "r", "a", "s", "t", "r", "u", "c", "t", "u", "r", "e">>
  /\ \E path \in ModulePaths("base") :
       \A k \in DOMAIN LayerPriority :
         ~ HasKeyword(path, KeywordsOf(LayerPriority[k]))

\* the modules each rule of the claim accepts for an import: (a) the stem is
\* exactly the import name, (b) the path contains the dotted import converted
\* to a path, (c) the import is relative and the path is under the importer's
\* directory
RuleA(side, import_name) ==
  {p \in ModulePaths(side) : Stem(p) = import_name}

RuleB(side, import_name) ==
  {p \in ModulePaths(side) :
     Contains(p, ReplaceChar(import_name, ".", <<"/">>))}

RuleC(side, from_path, import_name) ==
  {p \in ModulePaths(side) :
     /\ StartsWith(import_name, <<".">>)
     /\ Contains(p, Parent(from_path) \o <<"/">> \o LStrip(import_name, "."))}

\* resolved is what the first rule that accepts a module chose, None if none
\* does
ChosenByFirstRule(side, from_path, import_name, resolved) ==
  IF RuleA(side, import_name) # {} THEN resolved \in RuleA(side, import_name)
  ELSE IF RuleB(side, import_name) # {}
  THEN resolved \in RuleB(side, import_name)
  ELSE IF RuleC(side, from_path, import_name) # {}
  THEN resolved \in RuleC(side, from_path, import_name)
  ELSE resolved = None

\* every import of every module resolves as Chosen says, and the dependency
\* graph a build leaves has the edges of the resolved imports
ResolvesBy(Chosen(_, _, _, _)) ==
  LET modules == builder["base"].modules
  IN /\ \A i \in DOMAIN modules : \A j \in DOMAIN modules[i].imports :
          Chosen("base", modules[i].path, modules[i].imports[j],
                 _resolve_import(modules, modules[i].path,
                                 modules[i].imports[j]))
     /\ builder["base"].built # "no" =>
          Range(builder["base"].dependency_graph) = ResolvedPairs("base")

\* C19 as claimed: _resolve_import tries three rules in fixed order and
\* returns the module chosen by the first that succeeds: (a) a known module
\* whose file stem is exactly the import name, (b) a known module whose path
\* contains the dotted import converted to a path, (c) for a relative import,
\* a known module under the importer's directory; none when no rule succeeds.
C19_Claimed == ResolvesBy(ChosenByFirstRule)

\* what holds: the same with rule (a) accepting a module whose stem is the
\* import name or ends it, each rule choosing the first module in the order
\* the files were parsed
ChosenByFirstRuleWithSuffix(side, from_path, import_name, resolved) ==
  LET modules == builder[side].modules
      First(S) ==
        modules[CHOOSE i \in DOMAIN modules :
                  /\ modules[i].path \in S
                  /\ \A j \in 1..(i - 1) : modules[j].path \notin S].path
      a == {p \in ModulePaths(side) :
              Stem(p) = import_name \/ EndsWith(import_name, Stem(p))}
  IN IF a # {} THEN resolved = First(a)
     ELSE IF RuleB(side, import_name) # {}
     THEN resolved = First(RuleB(side, import_name))
     ELSE IF RuleC(side, from_path, import_name) # {}
     THEN resolved = First(RuleC(side, from_path, import_name))
     ELSE resolved = None

C19_SuffixRule == ResolvesBy(ChosenByFirstRuleWithSuffix)

\* a build over a module that imports a name which only ends with the stem
\* of a known module
C19_Witness ==
  /\ builder["base"].built # "no"
  /\ \E i \in DOMAIN builder["base"].modules :
       \E j \in DOMAIN builder["base"].modules[i].imports :
         LET import_name == builder["base"].modules[i].imports[j]
         IN /\ RuleA("base", import_name) = {}
            /\ RuleB("base", import_name) = {}
            /\ RuleC("base", builder["base"].modules[i].path, import_name) = {}
            /\ \E p \in ModulePaths("base") : EndsWith(import_name, Stem(p))

\* builds in which rule (a), rule (b), rule (c) and no rule decide an import
C19_EveryRule ==
  /\ builder["base"].built # "no"
  /\ \E i \in DOMAIN builder["base"].modules :
       LET from_path == builder["base"].modules[i].path
           imports == Range(builder["base"].modules[i].imports)
       IN /\ \E n \in imports : RuleA("base", n) # {}
          /\ \E n \in imports :
               /\ \A p \in ModulePaths("base") : ~ EndsWith(n, Stem(p))
               /\ RuleB("base", n) # {}
          /\ \E n \in imports :
               /\ \A p \in ModulePaths("base") : ~ EndsWith(n, Stem(p))
               /\ RuleB("base", n) = {}
               /\ RuleC("base", from_path, n) # {}
          /\ \E n \in imports :
               _resolve_import(builder["base"].modules, from_path, n) = None

\* the conventional wrapper directories
Wrappers == {<<"s", "r", "c">>, <<"l", "i", "b">>, <<"p", "k", "g">>, <<"a", "p", "p">>, <<"i", "n", "t", "e", "r", "n", "a", "l">>}

\* the directories of a path, outermost first
Directories(path) == SubSeq(Parts(path), 1, Len(Parts(path)) - 1)

\* the first directory of the path that is not a wrapper; None if it has none
FirstProperDirectory(path) ==
  LET proper == {i \in DOMAIN Directories(path) :
                   Directories(path)[i] \notin Wrappers}
  IN IF proper = {} THEN None
     ELSE Directories(path)[CHOOSE i \in proper : \A j \in proper : i <= j]

\* the names of the contexts of g that hold a class of the module
ContextsOfModule(g, module) ==
  {g.bounded_contexts[i].name :
     i \in {k \in DOMAIN g.bounded_contexts :
              \E c \in DOMAIN module.classes :
                module.classes[c] \in Range(g.bounded_contexts[k].key_entities)}}

\* every module is in the context named after Directory(path), in none when
\* that is None
ContextsNamedBy(Directory(_)) ==
  Built("base") =>
    \A i \in DOMAIN builder["base"].modules :
      ContextsOfModule(Base, builder["base"].modules[i]) =
        IF Directory(builder["base"].modules[i].path) = None THEN {}
        ELSE {Title(Directory(builder["base"].modules[i].path))}

\* C20 as claimed: the bounded context a module is assigned to is named after
\* the first segment of its path that is not a wrapper directory (src, lib,
\* pkg, app, internal), and no bounded context is named after a wrapper
\* directory, for any nesting of wrapper directories.
C20_Claimed ==
  /\ ContextsNamedBy(FirstProperDirectory)
  /\ Built("base") =>
       \A i \in DOMAIN Base.bounded_contexts :
         Base.bounded_contexts[i].name \notin {Title(w) : w \in Wrappers}

\* what holds: one leading wrapper directory is skipped, and no more
OneWrapperSkipped(path) ==
  LET parts == Parts(path)
  IN IF Len(parts) < 2 THEN None
     ELSE IF parts[1] \notin Wrappers THEN parts[1]
     ELSE IF Len(parts) >= 3 THEN parts[2]
     ELSE None

C20_OneWrapperSkipped == ContextsNamedBy(OneWrapperSkipped)

\* a built graph of a module under two nested wrapper directories
C20_Witness ==
  /\ Built("base")
  /\ \E path \in ModulePaths("base") :
       /\ Len(Directories(path)) >= 3
       /\ Directories(path)[1] \in Wrappers
       /\ Directories(path)[2] \in Wrappers
       /\ Directories(path)[3] \notin Wrappers

\* a built graph with a context of two modules and a module under one wrapper
C20_ProperContexts ==
  /\ Built("base")
  /\ \E i \in DOMAIN Base.bounded_contexts :
       Len(Base.bounded_contexts[i].key_entities) = 2
  /\ \E path \in ModulePaths("base") :
       /\ Directories(path) # <<>>
       /\ Directories(path)[1] \in Wrappers
       /\ FirstProperDirectory(path) # None

(***************************************************************************)
(* Properties of the navigator.                                            *)
(***************************************************************************)
\* the directories navigator n tracks
Tracked(n) == Range(navigator[n]._temp_dirs)

\* the step is a call of close() on navigator n
IsClose(n) == task'[n].closes = task[n].closes + 1

\* C23: close() is idempotent.  In any state it is called in (never opened,
\* after checkouts that succeeded, after one that failed) it returns without
\* an error, leaving nothing tracked and no tracked directory on disk; a
\* second close() of that state would change nothing, and a close() that
\* follows a close() changes nothing.
C23_CloseIsIdempotent ==
  [][\A n \in Ids :
       IsClose(n) =>
         /\ task'[n].outcome = "closed"
         /\ navigator'[n]._temp_dirs = <<>>
         /\ \A d \in Tracked(n) : ~disk'.temps[d].exists
         /\ Close(navigator'[n], disk') =
              [navigator |-> navigator'[n], disk |-> disk']
         /\ task[n].outcome = "closed" =>
              navigator' = navigator /\ disk' = disk]_vars

\* close() has been called twice in a row on a navigator one of whose
\* checkouts failed, and on one that was never opened
C23_Witness ==
  \E n, m \in Ids :
    /\ task[n].closes = 2 /\ task[n].outcome = "closed"
    /\ task[n].calls = 2 /\ navigator[n].repo
    /\ task[m].closes >= 1 /\ task[m].outcome = "closed"
    /\ ~navigator[m].repo

\* no directory is tracked twice, by one navigator or by two, and no
\* directory has been written by a navigator that does not track it
Disjoint ==
  /\ \A n \in Ids :
       Cardinality(Tracked(n)) = Len(navigator[n]._temp_dirs)
  /\ \A n, m \in Ids : n # m => Tracked(n) \cap Tracked(m) = {}
  /\ \A d \in TempNames :
       disk.temps[d].writers \subseteq {n \in Ids : d \in Tracked(n)}

\* the step is the start of a checkout_to_temp call of navigator n
IsCheckoutStart(n) == task[n].at = "idle" /\ task'[n].at = "clone_from"

\* C24: every checkout_to_temp call works in a directory that no navigator
\* tracked and that did not exist, so no directory is ever tracked twice or
\* written by two checkouts, and no step of a checkout changes the live
\* repository (its work tree and current branch).
C24_OwnDirectory ==
  [][/\ \A n \in Ids :
          IsCheckoutStart(n) =>
            /\ task'[n].temp_dir \notin UNION {Tracked(m) : m \in Ids}
            /\ ~disk.temps[task'[n].temp_dir].exists
     /\ Disjoint'
     /\ disk'.repo = disk.repo]_vars

\* two checkouts of different refs are running at once, each having cloned
\* into its own directory, the live repository being as it was
C24_Witness ==
  /\ task[1].at = "checkout" /\ task[2].at = "checkout"
  /\ task[1].ref # task[2].ref
  /\ task[1].temp_dir # task[2].temp_dir
  /\ disk.temps[task[1].temp_dir].writers = {1}
  /\ disk.temps[task[2].temp_dir].writers = {2}
  /\ disk.repo.head = "main"

(***************************************************************************)
(* Properties of the diff requests.                                        *)
(***************************************************************************)
\* request r is between the end of its clone of the repository and the end
\* of its route: its navigator works on the cloned folder
Reading(r) ==
  task[r].at \in {"base_clone_from", "base_checkout",
                  "target_clone_from", "target_checkout"}

\* C21: on every exit path of a diff request (success; failure of the
\* clone, of the checkout of either ref, of the graph assembly, of the
\* comparison), once the request has finished its navigator tracks no
\* directory and no scratch directory it made still exists.
C21_ReleasedOnEveryExit ==
  \A r \in Ids :
    task[r].kind = "diff" /\ task[r].at = "finished" =>
      /\ navigator[r]._temp_dirs = <<>>
      /\ \A d \in TempNames : disk.temps[d].exists => disk.temps[d].maker # r

\* one diff request has finished on a failed graph assembly and the other
\* has completed
C21_Witness ==
  \E r, s \in Ids :
    /\ task[r].kind = "diff" /\ task[r].at = "finished"
    /\ task[r].outcome = "assembly"
    /\ task[s].kind = "diff" /\ task[s].at = "finished"
    /\ task[s].outcome = "completed"

\* every exit path is taken by some diff request
C21_ExitByClone == \E r \in Ids : task[r].kind = "diff" /\ task[r].outcome = "clone"

C21_ExitByCloneFrom == \E r \in Ids : task[r].outcome = "clone_from"

C21_ExitByCheckout == \E r \in Ids : task[r].outcome = "checkout"

C21_ExitByComparison == \E r \in Ids : task[r].outcome = "comparison"

\* the step is a failure of the clone or of the checkout inside the
\* checkout_to_temp call of request r
IsCheckoutFailure(r) ==
  /\ Reading(r)
  /\ task'[r].outcome \in {"clone_from", "checkout"}

\* C22: when the clone or the checkout fails inside checkout_to_temp, the
\* directory made for that call is removed and no longer tracked, the
\* directories of earlier checkouts are still there and tracked when the
\* error leaves checkout_to_temp, and the diff request ends with status
\* 'failed' and a null result (its finally block then closing the navigator).
C22_FailedCheckout ==
  [][\A r \in Ids :
       IsCheckoutFailure(r) =>
         LET left == Abandon(navigator[r], disk, task[r].temp_dir)
             earlier == Tracked(r) \ {task[r].temp_dir}
         IN /\ ~left.disk.temps[task[r].temp_dir].exists
            /\ Range(left.navigator._temp_dirs) = earlier
            /\ \A d \in earlier : left.disk.temps[d].exists
            /\ task'[r].at = "finished"
            /\ _diff_results'[r].status = "failed"
            /\ _diff_results'[r].result = "None"
            /\ navigator'[r]._temp_dirs = <<>>]_vars

\* a diff request whose base ref was checked out and whose target ref could
\* not be has ended as failed
C22_Witness ==
  \E r \in Ids :
    /\ task[r].at = "finished" /\ task[r].outcome = "checkout"
    /\ task[r].base_ref \in RepoRefs /\ task[r].target_ref \notin RepoRefs
    /\ _diff_results[r] = Failed

\* C30 as claimed: two requests for one repository URL do not interfere:
\* while a request works on the folder it cloned, the folder is there and is
\* the clone that request made, whatever the other request does.
C30_Claimed == \A s \in Ids : Reading(s) => disk.repo = ClonedRepoDir(s)

\* a diff request has failed reading the changed files, after its two
\* graphs were built and compared: the other request had removed the folder
C30_Witness ==
  \E r, s \in Ids :
    /\ r # s
    /\ task[s].outcome = "changed_files" /\ _diff_results[s] = Failed
    /\ task[r].kind # ""

\* the folder a diff request works on has been removed by the other
\* request's clone, which is in its place or about to be
C30_RemovedByClone ==
  \E r, s \in Ids :
    /\ r # s /\ Reading(s)
    /\ task[r].at \in {"clone", "cloning"}
    /\ disk.repo # ClonedRepoDir(s)

\* the folder a diff request works on has been removed by the other
\* request's cleanup
C30_RemovedByCleanup ==
  \E r, s \in Ids :
    /\ r # s /\ Reading(s)
    /\ task[r].at = "finished"
    /\ ~disk.repo.exists

(***************************************************************************)
(* Properties of failed parses.                                            *)
(***************************************************************************)
\* the files of a side whose parse failed: the parser raised and no result
\* of the file is held, or the result held carries an error
FailedFiles(side) ==
  LET held == {builder[side].parsed_files[i].file_path :
                 i \in DOMAIN builder[side].parsed_files}
      inError == {builder[side].parsed_files[i].file_path :
                    i \in {j \in DOMAIN builder[side].parsed_files :
                             builder[side].parsed_files[j].errors # <<>>}}
  IN (Range(builder[side].warned) \ held) \cup inError

\* id is an id build_akg makes for the file at path: f"{path}:..."
IsIdOfFile(id, path) == StartsWith(id, path \o <<":">>)

\* C25 as claimed: a file whose parse failed (the parser raised, or returned
\* a result carrying an error) does not stop parse_directory, contributes no
\* node to the assembled graph and is the end of none of its edges.
C25_Claimed ==
  \A side \in Sides :
    Built(side) =>
      \A path \in FailedFiles(side) :
        /\ \A id \in DOMAIN akg[side].nodes :
             /\ ~IsIdOfFile(id, path)
             /\ akg[side].nodes[id].file_path # path
        /\ \A i \in DOMAIN akg[side].edges :
             /\ ~IsIdOfFile(akg[side].edges[i].source_id, path)
             /\ ~IsIdOfFile(akg[side].edges[i].target_id, path)

\* what holds: a file whose parse raised is in no node and no edge, a file
\* whose result carries an error declares no node, and files parsed after a
\* failure are held
C25_RaisedFilesAreLeftOut ==
  \A side \in Sides :
    Built(side) =>
      /\ \A path \in FailedFiles(side) \ ModulePaths(side) :
           /\ \A id \in DOMAIN akg[side].nodes : ~IsIdOfFile(id, path)
           /\ \A i \in DOMAIN akg[side].edges :
                /\ ~IsIdOfFile(akg[side].edges[i].source_id, path)
                /\ ~IsIdOfFile(akg[side].edges[i].target_id, path)
      /\ \A path \in FailedFiles(side) :
           \A id \in DeclaredNodes(akg[side]) :
             akg[side].nodes[id].file_path # path

\* a graph built from a file that could not be read and a file that imports
\* it: the unreadable file is the target of an edge
C25_Witness ==
  /\ Built("base")
  /\ \E path \in FailedFiles("base") \cap ModulePaths("base") :
       \E i \in DOMAIN Base.edges : IsIdOfFile(Base.edges[i].target_id, path)

\* a graph built after a parse raised, from a file parsed after it
C25_ParsedAfterFailure ==
  /\ Built("base")
  /\ builder["base"].warned # <<>>
  /\ FailedFiles("base") \ ModulePaths("base") # {}
  /\ DeclaredNodes(Base) # {}

(***************************************************************************)
(* Properties of the rendered diagram.                                     *)
(***************************************************************************)
Rendered == pc = "rendered"

Diagram == _diff_results[1].mermaid_diff

\* the changes the diagram shows: line i of Diagram.nodes is change i
Shown == Prefix(diff.node_changes, MermaidLimit)

\* the classes whose class line lists the identifier
ClassesOf(node_id) ==
  {Diagram.classes[k].class :
     k \in {j \in DOMAIN Diagram.classes :
              node_id \in Range(Diagram.classes[j].ids)}}

\* C26 (as claimed): in the rendered diagram the identifier of every shown
\* node change is listed under exactly one style class, the class of its
\* change type, so that no identifier is listed under two classes.
C26_Claimed ==
  Rendered =>
    \A i \in DOMAIN Shown :
      ClassesOf(Diagram.nodes[i].node_id) = {Shown[i].change_type}

\* What the rendering gives: the identifier of every shown change is listed
\* under the class of its change type, and under that class only whenever the
\* identifiers of the shown changes are pairwise different.
C26_ClassOfItsType ==
  Rendered =>
    /\ Len(Diagram.nodes) = Len(Shown)
    /\ \A i \in DOMAIN Shown :
         Shown[i].change_type \in ClassesOf(Diagram.nodes[i].node_id)
    /\ (\A i, j \in DOMAIN Shown :
          i # j => Diagram.nodes[i].node_id # Diagram.nodes[j].node_id)
       => \A i \in DOMAIN Shown :
            ClassesOf(Diagram.nodes[i].node_id) = {Shown[i].change_type}

\* a diagram in which an added and a removed node share one identifier
C26_Witness ==
  /\ Rendered
  /\ \E i, j \in DOMAIN Shown :
       /\ Shown[i].change_type = ADDED
       /\ Shown[j].change_type = REMOVED
       /\ Diagram.nodes[i].node_id = Diagram.nodes[j].node_id
       /\ ClassesOf(Diagram.nodes[i].node_id) = {ADDED, REMOVED}

\* a diagram of an added, a removed and a modified node under three
\* identifiers, one class each
C26_ThreeClasses ==
  /\ Rendered
  /\ Len(Diagram.classes) = 3
  /\ \A i \in DOMAIN Shown :
       ClassesOf(Diagram.nodes[i].node_id) = {Shown[i].change_type}

(***************************************************************************)
(* Properties of the descriptions of modified nodes.                       *)
(***************************************************************************)
\* last line minus first line of a line range
Span(line_range) == line_range[2] - line_range[1]

MovedPiece(b, t) == Text("moved from {a} to {b}", b.file_path, t.file_path, 0)

ContentModified == Text("content modified", None, None, 0)

\* the templates of the pieces of a description
TemplatesOf(details) == {details[k].template : k \in DOMAIN details}

\* the size piece of the claim: expanded or reduced by the absolute
\* difference of the spans
SizePieceClaimed(b, t) ==
  IF Span(t.line_range) > Span(b.line_range)
  THEN Text("expanded by {n} lines", None, None,
            Span(t.line_range) - Span(b.line_range))
  ELSE Text("reduced by {n} lines", None, None,
            Span(b.line_range) - Span(t.line_range))

\* the size piece with its third form, for two ranges of one span
SizePiece(b, t) ==
  IF Span(t.line_range) = Span(b.line_range)
  THEN Text("position changed", None, None, 0)
  ELSE SizePieceClaimed(b, t)

\* both line ranges are present and they differ
BothRangesDiffer(b, t) ==
  /\ b.line_range # t.line_range
  /\ b.line_range \notin {None, <<>>} /\ t.line_range \notin {None, <<>>}

\* C27 (as claimed): the details of every MODIFIED node change are built only
\* from 'moved from X to Y' (exactly when the file path differs),
\* 'expanded by N lines' / 'reduced by N lines' (N the absolute difference of
\* the spans) and the catch-all 'content modified'.
C27_Claimed ==
  Compared =>
    \A i \in OfType(diff.node_changes, MODIFIED) :
      LET c == diff.node_changes[i]
          b == Base.nodes[c.node_id]
          t == Target.nodes[c.node_id]
      IN /\ TemplatesOf(c.details) \subseteq
              {"moved from {a} to {b}", "expanded by {n} lines",
               "reduced by {n} lines", "content modified"}
         /\ (MovedPiece(b, t) \in Range(c.details))
              <=> (b.file_path # t.file_path)
         /\ \A k \in DOMAIN c.details :
              c.details[k].template \in
                {"expanded by {n} lines", "reduced by {n} lines"}
              => c.details[k] = SizePieceClaimed(b, t)

\* C27 (amended): the details of every MODIFIED node change are, in this
\* order, 'moved from X to Y' exactly when the file path differs and, exactly
\* when both line ranges are present and differ, one of 'expanded by N
\* lines', 'reduced by N lines' (N the absolute difference of the spans) and
\* 'position changed' (equal spans); 'content modified' stands alone exactly
\* when neither applies.
C27_Details ==
  Compared =>
    \A i \in OfType(diff.node_changes, MODIFIED) :
      LET c == diff.node_changes[i]
          b == Base.nodes[c.node_id]
          t == Target.nodes[c.node_id]
          moved == IF b.file_path # t.file_path
                   THEN <<MovedPiece(b, t)>> ELSE <<>>
          sized == IF BothRangesDiffer(b, t)
                   THEN <<SizePiece(b, t)>> ELSE <<>>
      IN c.details = IF moved \o sized = <<>> THEN <<ContentModified>>
                     ELSE moved \o sized

\* a MODIFIED node whose range moved without changing its span
C27_Witness ==
  /\ Compared
  /\ \E i \in OfType(diff.node_changes, MODIFIED) :
       LET c == diff.node_changes[i]
       IN /\ BothRangesDiffer(Base.nodes[c.node_id], Target.nodes[c.node_id])
          /\ Span(c.old_line_range) = Span(c.new_line_range)
          /\ c.details = <<Text("position changed", None, None, 0)>>

\* MODIFIED nodes described as moved and reduced, and as content modified
C27_MovedAndReduced ==
  /\ Compared
  /\ \E i \in OfType(diff.node_changes, MODIFIED) :
       TemplatesOf(diff.node_changes[i].details) =
         {"moved from {a} to {b}", "reduced by {n} lines"}

C27_ContentModified ==
  /\ Compared
  /\ \E i \in OfType(diff.node_changes, MODIFIED) :
       diff.node_changes[i].details = <<ContentModified>>

(***************************************************************************)
(* Properties of a target that only adds to the base.                      *)
(***************************************************************************)
\* every base node is in target unchanged and every base edge is in target
OnlyAdds ==
  /\ \A k \in DOMAIN Base.nodes :
       k \in DOMAIN Target.nodes /\ Target.nodes[k] = Base.nodes[k]
  /\ \A i \in DOMAIN Base.edges :
       \E j \in DOMAIN Target.edges : Target.edges[j] = Base.edges[i]

\* C28: when the target graph only adds to the base, the comparison ends with
\* an empty breaking_changes list and risk_level 'low', whatever the names of
\* the added nodes and the targets of the added edges.
C28_OnlyAddsIsLowRisk ==
  (pc # "building" /\ OnlyAdds) =>
    /\ Compared
    /\ diff.breaking_changes = <<>>
    /\ diff.risk_level = "low"

\* a non-empty base to which the target adds four high-impact nodes and an
\* edge to an API node
C28_Witness ==
  /\ Compared
  /\ OnlyAdds
  /\ Base.nodes # <<>>
  /\ Cardinality({i \in OfType(diff.node_changes, ADDED) :
                    diff.node_changes[i].impact = "high"}) > 3
  /\ \E i \in OfType(diff.edge_changes, ADDED) :
       EdgeIsBreaking(diff.edge_changes[i])
  /\ diff.risk_level = "low"

(***************************************************************************)
(* Properties of the analysis records.                                     *)
(***************************************************************************)
\* run_analysis of request r has returned
AnalysisFinished(r) == task[r].kind = "analysis" /\ task[r].at = "finished"

\* the orchestrator has emitted a 'failed' progress update for request r
EmittedFailed(r) == "failed" \in Range(analysis_store[r].progress)

\* C29 (as claimed): when run_analysis has finished after the orchestrator
\* emitted a 'failed' progress update, the stored record has status 'failed'
\* and an error that is not None; a record has status 'completed' only when
\* no stage failed.
C29_Claimed ==
  \A r \in Ids :
    /\ (AnalysisFinished(r) /\ EmittedFailed(r)) =>
         /\ analysis_store[r].status = "failed"
         /\ analysis_store[r].error # "None"
    /\ (task[r].kind = "analysis" /\ analysis_store[r].status = "completed")
         => ~ EmittedFailed(r)

\* What holds: a finished record is 'failed' with an error exactly when
\* run_analysis itself caught an exception, and is 'completed' with no error
\* in every other case, a failed stage included; the progress updates of the
\* record tell the two apart.
C29_StatusAfterTheLoop ==
  \A r \in Ids :
    AnalysisFinished(r) =>
      IF task[r].outcome = "raised"
      THEN /\ analysis_store[r].status = "failed"
           /\ analysis_store[r].error = "str(e)"
      ELSE /\ analysis_store[r].status = "completed"
           /\ analysis_store[r].error = "None"
           /\ analysis_store[r].progress[Len(analysis_store[r].progress)]
                = task[r].outcome

\* an analysis whose clone failed, finished as 'completed' without an error
C29_Witness ==
  \E r \in Ids :
    /\ AnalysisFinished(r)
    /\ analysis_store[r].progress = <<"cloning", "failed">>
    /\ analysis_store[r].status = "completed"
    /\ analysis_store[r].error = "None"

\* an analysis all of whose stages succeeded
C29_AllStages ==
  \E r \in Ids :
    /\ AnalysisFinished(r)
    /\ Len(analysis_store[r].progress) = 10
    /\ ~ EmittedFailed(r)
    /\ analysis_store[r].status = "completed"

====
